---- MODULE Spec2Model ----
(***************************************************************************)
(* Model of the hypr-config-manager ConfigManagerMongo (pkg/hyprconfig):   *)
(* the configs collection with each aggregate's embedded program-config    *)
(* tree, the favourites and applied-state collections, and the operations  *)
(* of client.go on them.  One action is one ConfigManager call, executed   *)
(* from its first store read to its last store write.                      *)
(*                                                                         *)
(* A program config (HyprProgramConfig) is the record                      *)
(*   [id, program, created, content, hash, sub]                            *)
(* where program stands for the caller-controlled payload of the node,     *)
(* created is CreatedTimestamp, content and hash are FileContent.Data and  *)
(* FileContent.Hash, and sub is SubConfigs.  A list of program configs is  *)
(* a sequence in slice order.  Fields no modelled decision reads (titles   *)
(* of nodes, arguments, environment, updated timestamps of nodes) are not  *)
(* carried.  Text that the code takes apart (versions, search queries,     *)
(* titles under a search) is a sequence of one-character strings; file     *)
(* content is a sequence of lines, each a sequence of tokens.              *)
(*                                                                         *)
(* The specifications explore the same operations over different input    *)
(* sets: Spec (the tree mutations of one aggregate by its owner), SpecNode *)
(* (node updates with varying payloads and a moving clock), SpecAuth (all  *)
(* callers, the aggregate-level operations and the reads), SpecSearch      *)
(* (the search predicate), SpecVersion (bumpPatchVersion on arbitrary      *)
(* text), SpecValidate (validation against the allowed-programs lookup),   *)
(* SpecRace (two requests whose store calls interleave) and SpecFail       *)
(* (store calls that fail).                                                *)
(***************************************************************************)
EXTENDS Integers, Sequences, FiniteSets, TLC

\* ---------------------------------------------------------------- bounds
\* Most nodes a tree holds in the tree-mutation specification.
MaxNodes == 3
\* Most nodes a tree holds in the node-update specification.
MaxUpdNodes == 3
\* Most nodes a tree holds in the authorization/visibility specification.
MaxAuthNodes == 1
\* Last value the clock reaches.
MaxTime == 1
\* Largest patch component a version is bumped to.
MaxPatch == 1
\* Longest version text bumpPatchVersion is tried on.
MaxVerLen == 5
\* Most calls one request slot makes when requests interleave.
MaxRaceCalls == 1
\* Most calls made when store calls can fail.
MaxFailCalls == 3

\* ------------------------------------------------------------ input sets
\* Identities a caller can put on a node ("" = none given).
IDs == {"a", "b"}
\* Identities uuid.NewString() hands out for nodes.
NodeUuids == {"u"}
\* The one aggregate identity uuid.New() hands out in CreateConfig.
CfgIds == {"c1"}

Anon == [signedIn |-> FALSE, id |-> "", admin |-> FALSE]
U1 == [signedIn |-> TRUE, id |-> "u1", admin |-> FALSE]
U2 == [signedIn |-> TRUE, id |-> "u2", admin |-> FALSE]
Adm == [signedIn |-> TRUE, id |-> "root", admin |-> TRUE]
Callers == {Anon, U1, U2, Adm}

\* Leaf node as a caller sends it (timestamps are overwritten by the code).
Leaf(id, program) ==
    [id |-> id, program |-> program, created |-> 0,
     content |-> <<>>, hash |-> "", sub |-> <<>>]
Parent(id, program, kids) ==
    [id |-> id, program |-> program, created |-> 0,
     content |-> <<>>, hash |-> "", sub |-> kids]

\* ---------------------------------------------------------------- errors
ErrUnauthorized == "unauthorized"
ErrForbidden == "forbidden"
ErrNotFound == "not found"
ErrParentNotFound == "parent program config not found"
ErrProgNotFound == "program config not found"
ErrValidation == "validation failed"
OK == "ok"

\* ------------------------------------------------------------------- text
\* A text is a sequence of one-character strings.
Digits == <<"0", "1", "2", "3", "4", "5", "6", "7", "8", "9">>
IsDigit(c) == \E i \in 1..10 : Digits[i] = c
DigitVal(c) == (CHOOSE i \in 1..10 : Digits[i] = c) - 1

RECURSIVE Split(_, _)
\* strings.Split(s, sep) for a one-character sep: the pieces of s between
\* the occurrences of sep; a text without sep is its own single piece.
Split(s, sep) ==
    IF \A i \in 1..Len(s) : s[i] # sep THEN <<s>>
    ELSE LET k == CHOOSE i \in 1..Len(s) :
                    s[i] = sep /\ \A j \in 1..(i - 1) : s[j] # sep
         IN <<SubSeq(s, 1, k - 1)>> \o Split(SubSeq(s, k + 1, Len(s)), sep)

RECURSIVE ParseUint(_, _)
\* The number a run of decimal digits denotes, most significant first.
ParseUint(ds, acc) ==
    IF ds = <<>> THEN acc
    ELSE ParseUint(Tail(ds), acc * 10 + DigitVal(Head(ds)))

\* strconv.Atoi: an optional sign and one or more decimal digits; anything
\* else is an error.  (The texts of the model stay far inside the range of
\* int, so the range error of Atoi does not arise.)
Atoi(s) ==
    LET signed == Len(s) > 0 /\ s[1] \in {"+", "-"}
        ds == IF signed THEN Tail(s) ELSE s
    IN IF ds = <<>> \/ \E i \in 1..Len(ds) : ~IsDigit(ds[i])
       THEN [ok |-> FALSE, val |-> 0]
       ELSE [ok |-> TRUE,
             val |-> IF signed /\ s[1] = "-" THEN 0 - ParseUint(ds, 0)
                     ELSE ParseUint(ds, 0)]

RECURSIVE UintText(_)
\* The decimal digits of a natural number.
UintText(n) ==
    IF n < 10 THEN <<Digits[n + 1]>>
    ELSE UintText(n \div 10) \o <<Digits[(n % 10) + 1]>>

\* fmt.Sprintf("%d", n).
Itoa(n) == IF n < 0 THEN <<"-">> \o UintText(0 - n) ELSE UintText(n)

\* The version text "0.0.0".
Version000 == <<"0", ".", "0", ".", "0">>

\* ------------------------------------------------------------- tree walks
RECURSIVE Count(_)
\* Number of nodes of a list of program configs, nested ones included.
Count(list) ==
    IF list = <<>> THEN 0
    ELSE 1 + Count(Head(list).sub) + Count(Tail(list))

RECURSIVE PreOrder(_)
\* The nodes of a list in depth-first pre-order.
PreOrder(list) ==
    IF list = <<>> THEN <<>>
    ELSE <<Head(list)>> \o PreOrder(Head(list).sub) \o PreOrder(Tail(list))

\* The identities of a list in depth-first pre-order.
IdsOf(list) == [i \in 1..Len(PreOrder(list)) |-> PreOrder(list)[i].id]

IdSet(list) == {IdsOf(list)[i] : i \in 1..Len(IdsOf(list))}

RECURSIVE PathsOf(_, _)
\* The position paths of the nodes of a list, in depth-first pre-order; a
\* path is the sequence of 1-based indexes from the top level down.
PathsOf(list, prefix) ==
    LET RECURSIVE walk(_)
        walk(i) ==
            IF i > Len(list) THEN <<>>
            ELSE <<Append(prefix, i)>>
                 \o PathsOf(list[i].sub, Append(prefix, i))
                 \o walk(i + 1)
    IN walk(1)

RECURSIVE NodeAt(_, _)
\* The node of a list at a position path.
NodeAt(list, path) ==
    IF Len(path) = 1 THEN list[path[1]]
    ELSE NodeAt(list[path[1]].sub, Tail(path))

\* Path of the first node, in depth-first pre-order, whose identity is id
\* (<<>> when there is none).
FirstPath(list, id) ==
    LET ps == PathsOf(list, <<>>)
        hits == {i \in 1..Len(ps) : NodeAt(list, ps[i]).id = id}
    IN IF hits = {} THEN <<>>
       ELSE ps[CHOOSE i \in hits : \A j \in hits : i <= j]

IsPrefix(p, q) == Len(p) <= Len(q) /\ SubSeq(q, 1, Len(p)) = p

\* ------------------------------------------------------------ Tree Mutator
\* Result of a search that found nothing in list.
NotInserted(list) == [ok |-> FALSE, list |-> list]

RECURSIVE insertIntoNested(_, _, _)
\* client.go insertIntoNested: the loop over list is the recursion on Tail.
\* The first node in pre-order whose id is parentID gets newProg appended to
\* its SubConfigs; ok tells whether one was found.
insertIntoNested(list, newProg, parentID) ==
    IF list = <<>> THEN NotInserted(list)
    ELSE LET h == Head(list) IN
         IF h.id = parentID
         THEN [ok |-> TRUE,
               list |-> <<[h EXCEPT !.sub = Append(h.sub, newProg)]>> \o Tail(list)]
         ELSE LET inner == IF Len(h.sub) > 0
                           THEN insertIntoNested(h.sub, newProg, parentID)
                           ELSE NotInserted(h.sub)
              IN IF inner.ok
                 THEN [ok |-> TRUE,
                       list |-> <<[h EXCEPT !.sub = inner.list]>> \o Tail(list)]
                 ELSE LET rest == insertIntoNested(Tail(list), newProg, parentID)
                      IN [ok |-> rest.ok, list |-> <<h>> \o rest.list]

\* Mutant of insertIntoSubConfig: a parent that is not found falls back to
\* a top-level append instead of reporting failure.
insertIntoSubConfig_Fallback(list, newProg, parentID) ==
    IF insertIntoNested(list, newProg, parentID).ok
    THEN insertIntoNested(list, newProg, parentID)
    ELSE [ok |-> TRUE, list |-> Append(list, newProg)]

\* client.go insertIntoSubConfig: the same search over the top-level slice.
insertIntoSubConfig(list, newProg, parentID) ==
    insertIntoNested(list, newProg, parentID)

\* Mutant of filterSubConfigs: filters one level only, without the
\* recursion into each node's own SubConfigs.
filterSubConfigs_Shallow(sub, targetID) ==
    SelectSeq(sub, LAMBDA sc : sc.id # targetID)

RECURSIVE filterSubConfigs(_, _)
\* client.go filterSubConfigs: every node's SubConfigs are filtered first,
\* then the node is skipped when its id is targetID.
filterSubConfigs(sub, targetID) ==
    IF sub = <<>> THEN <<>>
    ELSE LET sc == Head(sub)
             kept == IF Len(sc.sub) > 0
                     THEN [sc EXCEPT !.sub = filterSubConfigs(sc.sub, targetID)]
                     ELSE sc
         IN (IF sc.id = targetID THEN <<>> ELSE <<kept>>)
            \o filterSubConfigs(Tail(sub), targetID)

RECURSIVE removeNestedProgramConfig(_, _)
\* client.go removeNestedProgramConfig: the top-level counterpart.
removeNestedProgramConfig(list, targetID) ==
    IF list = <<>> THEN <<>>
    ELSE LET item == Head(list)
             kept == IF Len(item.sub) > 0
                     THEN [item EXCEPT !.sub = filterSubConfigs(item.sub, targetID)]
                     ELSE item
         IN (IF item.id # targetID THEN <<kept>> ELSE <<>>)
            \o removeNestedProgramConfig(Tail(list), targetID)

\* The $pull of RemoveProgramConfig: drops every top-level element whose id
\* is progID and nothing below the top level.
pullTopLevel(list, progID) == SelectSeq(list, LAMBDA n : n.id # progID)

RECURSIVE extractLoop(_, _, _, _)
\* The for loop shared by extractProgramConfig and
\* extractProgramConfigNested: i is the loop index and newList the slice
\* built so far.  Both return statements inside the loop return newList as
\* it stands, without the elements of list after index i.  removed is <<>>
\* for nil and <<node>> for a pointer to node.
extractLoop(list, progID, i, newList) ==
    IF i > Len(list) THEN [list |-> newList, removed |-> <<>>]
    ELSE LET sc == list[i] IN
         IF sc.id = progID THEN [list |-> newList, removed |-> <<sc>>]
         ELSE LET inner == IF Len(sc.sub) > 0
                           THEN extractLoop(sc.sub, progID, 1, <<>>)
                           ELSE [list |-> sc.sub, removed |-> <<>>]
              IN IF inner.removed # <<>>
                 THEN [list |-> Append(newList, [sc EXCEPT !.sub = inner.list]),
                       removed |-> inner.removed]
                 ELSE extractLoop(list, progID, i + 1, Append(newList, sc))

\* client.go extractProgramConfigNested.
extractProgramConfigNested(list, progID) == extractLoop(list, progID, 1, <<>>)

\* client.go extractProgramConfig.
extractProgramConfig(list, progID) == extractLoop(list, progID, 1, <<>>)

\* Mutant of Replacement: the matched node's SubConfigs are not carried
\* over, so the replacement's own children displace them.
Replacement_OwnChildren(node, progID, updates) ==
    [updates EXCEPT !.id = progID, !.created = node.created]

\* The node stored in place of a matched node: updates with ID,
\* CreatedTimestamp and SubConfigs forced to the matched node's.
Replacement(node, progID, updates) ==
    [updates EXCEPT !.id = progID, !.created = node.created, !.sub = node.sub]

RECURSIVE updateSubConfigRecursive(_, _, _)
\* client.go updateSubConfigRecursive: the first node in pre-order whose id
\* is progID is replaced by updates, with ID, CreatedTimestamp and SubConfigs
\* forced to the node's own.
updateSubConfigRecursive(list, progID, updates) ==
    IF list = <<>> THEN [list |-> list, ok |-> FALSE]
    ELSE LET h == Head(list) IN
         IF h.id = progID
         THEN [list |-> <<Replacement(h, progID, updates)>> \o Tail(list),
               ok |-> TRUE]
         ELSE LET inner == IF Len(h.sub) > 0
                           THEN updateSubConfigRecursive(h.sub, progID, updates)
                           ELSE [list |-> h.sub, ok |-> FALSE]
              IN IF inner.ok
                 THEN [list |-> <<[h EXCEPT !.sub = inner.list]>> \o Tail(list),
                       ok |-> TRUE]
                 ELSE LET rest == updateSubConfigRecursive(Tail(list), progID, updates)
                      IN [list |-> <<h>> \o rest.list, ok |-> rest.ok]

\* client.go updateProgramConfigRecursive: the top-level counterpart.
updateProgramConfigRecursive(list, progID, updates) ==
    updateSubConfigRecursive(list, progID, updates)

\* ---------------------------------------------------------------- programs
\* Program names of the model: "kitty" is in the static whitelist
\* validPrograms, "evil" is not.
Programs == {"kitty", "evil"}
validPrograms == {"kitty"}

\* ------------------------------------------------------------------- state
VARIABLES
    configs,    \* Collection: the stored HyprConfig documents
    issued,     \* aggregate identities uuid.New() has handed out
    favorites,  \* FavoritesCollection: <<user, config>> pairs
    applied,    \* StateCollection: <<user, config>> pairs, one per user
    programs,   \* ProgramsCollection: the allowed program names
    now,        \* the clock time.Now() reads
    inflight,   \* per request slot: the call in progress between store calls
    strace,     \* the RunStrace call: main path, watcher goroutine, shared err
    last        \* the last call: its arguments, its result, what it returned

vars == <<configs, issued, favorites, applied, programs, now, inflight, strace, last>>

NoInput == Leaf("", "")

Call(op, caller, cfg, target, parent, node, res, ret) ==
    [op |-> op, caller |-> caller, cfg |-> cfg, target |-> target,
     parent |-> parent, node |-> node, res |-> res, ret |-> ret]

\* util.go getUserFromContext: nil session or not signed in is unauthorized.
getUserFromContext(caller) == IF caller.signedIn THEN OK ELSE ErrUnauthorized

\* util.go isAdmin.
isAdmin(caller) == caller.admin

\* Collection.FindOne by _id: the set of matching documents (none or one).
FindOne(id) == {d \in configs : d.id = id}

\* Mutant of MayMutate: any signed-in caller passes.
MayMutate_Anyone(caller, cfg) == caller.signedIn

\* The owner-or-admin test every mutating operation makes.
MayMutate(caller, cfg) == cfg.owner = caller.id \/ isAdmin(caller)

\* -------------------------------------------------------------- extractor
\* File content is a sequence of lines and a line a sequence of tokens:
\* words, a run of "#" characters as the token "#", and the characters
\* "=", ",", "&" and ";" each as a token of its own.  White space other
\* than the line break is what separates the tokens of a line.
\*
\* Tokens that are a "$" followed by word characters.
VarTokens == {"$term", "$pop"}

\* The line break.
NL == "\n"

RECURSIVE Flat(_)
\* string(content.Data): the text as one sequence of tokens, with a line
\* break between two lines.
Flat(content) ==
    IF content = <<>> THEN <<>>
    ELSE IF Len(content) = 1 THEN content[1]
    ELSE content[1] \o <<NL>> \o Flat(Tail(content))

RECURSIVE SkipSpace(_, _)
\* What \s* takes from position i on: the first position at or after i
\* that is not a line break (white space within a line is between tokens).
SkipSpace(s, i) ==
    IF i <= Len(s) /\ s[i] = NL THEN SkipSpace(s, i + 1) ELSE i

RECURSIVE PairsFrom(_, _)
\* util.go ParseKeyValuePairs, the matches of \$(\w+)\s*=\s*(\S+) from
\* position i on, left to right and not overlapping, as <<key, value>>.
PairsFrom(s, i) ==
    IF i > Len(s) THEN <<>>
    ELSE LET e == SkipSpace(s, i + 1)
             v == SkipSpace(s, e + 1)
         IN IF /\ s[i] \in VarTokens
               /\ e <= Len(s) /\ s[e] = "="
               /\ v <= Len(s)
            THEN <<<<s[i], s[v]>>>> \o PairsFrom(s, v + 1)
            ELSE PairsFrom(s, i + 1)

\* util.go ParseKeyValuePairs: the assignments of the whole text in text
\* order; in the map the code builds, a later one replaces an earlier one.
ParseKeyValuePairs(input) == PairsFrom(input, 1)

HasKey(pairs, key) == \E i \in 1..Len(pairs) : pairs[i][1] = key

\* Mutant of ValueOfKey: the first assignment is the one that counts.
ValueOfKey_First(pairs, key) ==
    pairs[CHOOSE i \in 1..Len(pairs) :
            /\ pairs[i][1] = key
            /\ \A j \in 1..(i - 1) : pairs[j][1] # key][2]

\* The value the map holds for key: that of the last assignment.
ValueOfKey(pairs, key) ==
    pairs[CHOOSE i \in 1..Len(pairs) :
            /\ pairs[i][1] = key
            /\ \A j \in (i + 1)..Len(pairs) : pairs[j][1] # key][2]

\* util.go ignore.
ignore == {"va11-popup", "va11-confirm"}

RECURSIVE SegmentHeads(_, _)
\* The first token of every segment of a directive's payload, the payload
\* being cut at "&" and ";" (strings.FieldsFunc, then strings.Fields);
\* atStart tells that no token of the current segment was seen yet.
SegmentHeads(payload, atStart) ==
    IF payload = <<>> THEN <<>>
    ELSE IF Head(payload) \in {"&", ";"} THEN SegmentHeads(Tail(payload), TRUE)
    ELSE IF atStart THEN <<Head(payload)>> \o SegmentHeads(Tail(payload), FALSE)
    ELSE SegmentHeads(Tail(payload), FALSE)

RECURSIVE LineEnd(_, _)
\* What [^\n]+ takes from position p on: the last position before the next
\* line break.
LineEnd(s, p) ==
    IF p < Len(s) /\ s[p + 1] # NL THEN LineEnd(s, p + 1) ELSE p

RECURSIVE CommandsFrom(_, _, _, _, _)
\* The commands the matches of one directive expression contribute, from
\* position from on, left to right and not overlapping: keyword is
\* "exec-once" or "exec" and marks the characters that may follow it.  A
\* match is the leftmost keyword that is followed, over any white space,
\* by a mark and, over any white space, by a payload, which runs to the end
\* of its line; the match takes in a "#" that stands before the keyword
\* with only white space between, and a match that holds a "#" is
\* skipped.  Each segment's first token is replaced by its variable value
\* if it has one, and dropped if the result is in ignore.
CommandsFrom(s, from, keyword, marks, pairs) ==
    LET hits == {k \in from..Len(s) :
                    /\ s[k] = keyword
                    /\ SkipSpace(s, k + 1) <= Len(s)
                    /\ s[SkipSpace(s, k + 1)] \in marks
                    /\ SkipSpace(s, SkipSpace(s, k + 1) + 1) <= Len(s)}
    IN IF hits = {} THEN <<>>
       ELSE LET k == CHOOSE h \in hits : \A j \in hits : h <= j
                p == SkipSpace(s, SkipSpace(s, k + 1) + 1)
                q == LineEnd(s, p)
                hashed == \/ \E j \in from..(k - 1) :
                                /\ s[j] = "#"
                                /\ \A m \in (j + 1)..(k - 1) : s[m] = NL
                          \/ \E j \in k..q : s[j] = "#"
                heads == SegmentHeads(SubSeq(s, p, q), TRUE)
                named == [i \in 1..Len(heads) |->
                            IF HasKey(pairs, heads[i])
                            THEN ValueOfKey(pairs, heads[i]) ELSE heads[i]]
            IN (IF hashed THEN <<>>
                ELSE SelectSeq(named, LAMBDA n : n \notin ignore))
               \o CommandsFrom(s, q + 1, keyword, marks, pairs)

RECURSIVE DeduplicateStrings(_)
\* utils.DeduplicateStrings: each string once, at its first position.
DeduplicateStrings(names) ==
    IF names = <<>> THEN <<>>
    ELSE LET front == SubSeq(names, 1, Len(names) - 1)
             l == names[Len(names)]
         IN IF \E i \in 1..Len(front) : front[i] = l
            THEN DeduplicateStrings(front)
            ELSE Append(DeduplicateStrings(front), l)

\* util.go ExtractExecOnceCommands: the exec-once directives of the whole
\* text first, then the exec directives, deduplicated.
ExtractExecOnceCommands(content) ==
    LET input == Flat(content)
        pairs == ParseKeyValuePairs(input)
    IN DeduplicateStrings(CommandsFrom(input, 1, "exec-once", {"="}, pairs)
                          \o CommandsFrom(input, 1, "exec", {"=", ","}, pairs))

\* ------------------------------------------------------------- validation
\* What the allowed-programs lookups of one call return: the names found
\* and the names whose lookup fails with a store error.
Gateway == [found |-> programs, failing |-> {}]

\* Mutant of checkProgramExists: a lookup that fails counts as found.
checkProgramExists_FailOpen(gw, programName) ==
    programName \in gw.failing \/ programName \in gw.found

\* client.go checkProgramExists: nil (TRUE) when the lookup finds the
\* name; an error for no document and for any other lookup error.
checkProgramExists(gw, programName) ==
    programName \notin gw.failing /\ programName \in gw.found

RECURSIVE CheckNames(_, _)
\* The name check HyprProgramConfig.Validate makes for each name of a
\* sequence in turn: a name of validPrograms passes without a lookup, any
\* other is looked up; the first name refused ends the check.  The result
\* tells whether all passed, the name refused, and the names looked up.
CheckNames(names, gw) ==
    IF names = <<>> THEN [ok |-> TRUE, bad |-> "", calls |-> <<>>]
    ELSE LET n == Head(names) IN
         IF n \in validPrograms THEN CheckNames(Tail(names), gw)
         ELSE IF ~checkProgramExists(gw, n)
         THEN [ok |-> FALSE, bad |-> n, calls |-> <<n>>]
         ELSE LET rest == CheckNames(Tail(names), gw)
              IN [rest EXCEPT !.calls = <<n>> \o @]

\* Mutant of ContentCommands: the content of a node is never looked into.
ContentCommands_Skipped(pc) == <<>>

\* The commands HyprProgramConfig.Validate checks for a node's content:
\* those the extractor returns, when data and hash are both non-empty.
ContentCommands(pc) ==
    IF Len(pc.content) > 0 /\ pc.hash # ""
    THEN ExtractExecOnceCommands(pc.content) ELSE <<>>

RECURSIVE ValidateList(_, _)
\* HyprProgramConfig.Validate over a list of nodes in order: for each node
\* its program name, then the commands of its content, then its
\* SubConfigs; the first failure ends the walk.
ValidateList(list, gw) ==
    IF list = <<>> THEN [ok |-> TRUE, bad |-> "", calls |-> <<>>]
    ELSE LET pc == Head(list)
             own == CheckNames(<<pc.program>> \o ContentCommands(pc), gw)
         IN IF ~own.ok THEN own
            ELSE LET subs == ValidateList(pc.sub, gw) IN
                 IF ~subs.ok THEN [subs EXCEPT !.calls = own.calls \o @]
                 ELSE LET rest == ValidateList(Tail(list), gw)
                      IN [rest EXCEPT !.calls = own.calls \o subs.calls \o @]

\* HyprProgramConfig.Validate over a list with the store as it is.
ValidateNodes(list) == ValidateList(list, Gateway).ok

\* HyprConfig.Validate with given lookup results: the outcome, the program
\* name the error names and the lookups made.
ValidateVia(cfg, gw) ==
    IF cfg.title = "" \/ Len(cfg.tree) = 0
    THEN [ok |-> FALSE, bad |-> "", calls |-> <<>>]
    ELSE ValidateList(cfg.tree, gw)

\* HyprConfig.Validate with the store as it is.
Validate(cfg) == ValidateVia(cfg, Gateway).ok

\* Mutant of SetTree: the write is conditional on the stored document still
\* being the one that was loaded.
SetTree_IfUnchanged(cfg, tree) ==
    {IF d = cfg THEN [d EXCEPT !.tree = tree, !.updated = now] ELSE d
        : d \in configs}

\* Collection.UpdateByID with $set of program_configs and
\* updated_timestamp: the stored document with cfg's identity gets both
\* replaced.
SetTree(cfg, tree) ==
    {IF d.id = cfg.id THEN [d EXCEPT !.tree = tree, !.updated = now] ELSE d
        : d \in configs}

\* No RunStrace call: the main path has not started, there is no watcher
\* goroutine and no traced process.
NoStrace ==
    [main |-> "idle", watcher |-> "none", proc |-> "none", exit |-> "nil",
     deadline |-> FALSE, err |-> "nil", sawDeadline |-> FALSE,
     waitErr |-> "nil", readErr |-> "nil", result |-> "none", late |-> 0]

Unchanged == UNCHANGED <<strace, configs, issued, favorites, applied, programs, now, inflight>>
OnlyConfigs == UNCHANGED <<strace, issued, favorites, applied, programs, now, inflight>>

\* Request slots: two requests can be between store calls at a time.
Procs == {1, 2}

\* A slot with no call in progress.  call is the call as it will be
\* recorded in last; loaded is <<>> or <<the document FindOne returned>>;
\* modified is the $pull's ModifiedCount > 0.  The other fields are history
\* of the slot: before is the store when its latest call began, loadedAt
\* the number of writes to configs made before that call's load, order the
\* rank of the slot's latest write among all writes (0 = none), wrote is
\* <<>> or <<the program_configs the latest call wrote with $set>>, calls
\* counts the calls begun in the slot and okUpdates the
\* UpdateConfig calls of the slot that returned success.
IdleProc ==
    [pc |-> "idle",
     call |-> Call("init", Anon, "", "", "", NoInput, OK, {}),
     loaded |-> <<>>, modified |-> FALSE,
     before |-> <<>>, loadedAt |-> 0, order |-> 0, wrote |-> <<>>,
     calls |-> 0, okUpdates |-> 0]

Init ==
    /\ configs = {}
    /\ issued = {}
    /\ favorites = {}
    /\ applied = {}
    /\ programs = {}
    /\ now = 0
    /\ inflight = [p \in Procs |-> IdleProc]
    /\ strace = NoStrace
    /\ last = Call("init", Anon, "", "", "", NoInput, OK, {})

\* ------------------------------------------------------------- operations
\* client.go CreateConfig with given lookup results.  cfg is the caller's
\* document; id is the uuid.  The call is recorded with the tree and the
\* lookup results it was given and with what validation returned.
CreateConfigVia(caller, id, cfg, gw) ==
    LET doc == [id |-> id, owner |-> caller.id, private |-> cfg.private,
                title |-> cfg.title, description |-> cfg.description,
                tags |-> cfg.tags, version |-> cfg.version,
                likes |-> cfg.likes, created |-> now, updated |-> now,
                tree |-> cfg.tree]
        run == ValidateVia(doc, gw)
        rec(res, ret) ==
            Call("CreateConfig", caller, id, "", "", NoInput, res, ret)
        told == {[tree |-> cfg.tree, gw |-> gw, run |-> run]}
    IN /\ id \notin issued
       /\ IF getUserFromContext(caller) # OK
          THEN last' = rec(ErrUnauthorized, {}) /\ Unchanged
          ELSE IF ~run.ok
          THEN last' = rec(ErrValidation, told) /\ Unchanged
          ELSE /\ configs' = configs \cup {doc}
               /\ issued' = issued \cup {id}
               /\ last' = rec(OK, told)
               /\ UNCHANGED <<strace, favorites, applied, programs, now, inflight>>

\* client.go CreateConfig with the store as it is.
CreateConfig(caller, id, cfg) == CreateConfigVia(caller, id, cfg, Gateway)

\* strings.ToLower(strings.TrimSpace(name)) on the names of this model.
Normalize(name) ==
    CASE name = " Tool " -> "tool"
      [] name = " " -> ""
      [] OTHER -> name

\* client.go AddAllowedProgram.
AddAllowedProgram(caller, programName) ==
    LET name == Normalize(programName)
        rec(res) == Call("AddAllowedProgram", caller, "", programName, "",
                         NoInput, res, {})
    IN IF getUserFromContext(caller) # OK
       THEN last' = rec(ErrUnauthorized) /\ Unchanged
       ELSE IF ~isAdmin(caller)
       THEN last' = rec(ErrForbidden) /\ Unchanged
       ELSE IF name = ""
       THEN last' = rec("program name cannot be empty") /\ Unchanged
       ELSE IF name \in programs
       THEN last' = rec("already allowed") /\ Unchanged
       ELSE /\ programs' = programs \cup {name}
            /\ last' = rec(OK)
            /\ UNCHANGED <<strace, configs, issued, favorites, applied, now, inflight>>

\* client.go RemoveAllowedProgram.
RemoveAllowedProgram(caller, programName) ==
    LET name == Normalize(programName)
        rec(res) == Call("RemoveAllowedProgram", caller, "", programName, "",
                         NoInput, res, {})
    IN IF getUserFromContext(caller) # OK
       THEN last' = rec(ErrUnauthorized) /\ Unchanged
       ELSE IF ~isAdmin(caller)
       THEN last' = rec(ErrForbidden) /\ Unchanged
       ELSE IF name = ""
       THEN last' = rec("program name cannot be empty") /\ Unchanged
       ELSE IF name \notin programs
       THEN last' = rec(ErrNotFound) /\ Unchanged
       ELSE /\ programs' = programs \ {name}
            /\ last' = rec(OK)
            /\ UNCHANGED <<strace, configs, issued, favorites, applied, now, inflight>>

\* The part of a mutating call up to its permission check: the error it
\* returns there, or OK.
Gate(caller, configID) ==
    IF getUserFromContext(caller) # OK THEN ErrUnauthorized
    ELSE IF FindOne(configID) = {} THEN ErrNotFound
    ELSE IF ~MayMutate(caller, CHOOSE d \in FindOne(configID) : TRUE)
    THEN ErrForbidden
    ELSE OK

\* Mutant of AddResult: the new node is put first in its child list
\* instead of last.
AddResult_Prepend(tree, prog, parentID) ==
    IF parentID = "" THEN [ok |-> TRUE, list |-> <<prog>> \o tree]
    ELSE insertIntoSubConfig(tree, prog, parentID)

\* The in-memory tree AddProgramConfig and MoveProgramConfig build before
\* they write: a top-level append for an absent or empty parent, else
\* insertIntoSubConfig; ok is FALSE when the parent was not found.
AddResult(tree, prog, parentID) ==
    IF parentID = "" THEN [ok |-> TRUE, list |-> Append(tree, prog)]
    ELSE insertIntoSubConfig(tree, prog, parentID)

\* The tree RemoveProgramConfig leaves in the store: the $pull result when
\* the $pull modified the document, else removeNestedProgramConfig of the
\* loaded tree.
RemoveResult(tree, progID) ==
    IF pullTopLevel(tree, progID) # tree
    THEN pullTopLevel(tree, progID)
    ELSE removeNestedProgramConfig(tree, progID)

\* client.go AddProgramConfig.  uuid is what uuid.NewString() returns when
\* it is called.
AddProgramConfig(caller, configID, newProg, parentID, uuid) ==
    LET rec(res) == Call("AddProgramConfig", caller, configID, newProg.id,
                         parentID, newProg, res, {})
    IN IF Gate(caller, configID) # OK
       THEN last' = rec(Gate(caller, configID)) /\ Unchanged
       ELSE LET cfg == CHOOSE d \in FindOne(configID) : TRUE
                prog == [newProg EXCEPT
                           !.id = IF newProg.id = "" THEN uuid ELSE newProg.id,
                           !.created = now]
                ins == AddResult(cfg.tree, prog, parentID)
            IN IF ~ins.ok
               THEN last' = rec(ErrParentNotFound) /\ Unchanged
               ELSE /\ configs' = SetTree(cfg, ins.list)
                    /\ last' = rec(OK)
                    /\ OnlyConfigs

\* client.go RemoveProgramConfig.
RemoveProgramConfig(caller, configID, progID) ==
    LET rec(res) == Call("RemoveProgramConfig", caller, configID, progID,
                         "", NoInput, res, {})
    IN IF Gate(caller, configID) # OK
       THEN last' = rec(Gate(caller, configID)) /\ Unchanged
       ELSE LET cfg == CHOOSE d \in FindOne(configID) : TRUE
            IN /\ configs' = SetTree(cfg, RemoveResult(cfg.tree, progID))
               /\ last' = rec(OK)
               /\ OnlyConfigs

\* client.go MoveProgramConfig.
MoveProgramConfig(caller, configID, progID, newParentID) ==
    LET rec(res) == Call("MoveProgramConfig", caller, configID, progID,
                         newParentID, NoInput, res, {})
    IN IF Gate(caller, configID) # OK
       THEN last' = rec(Gate(caller, configID)) /\ Unchanged
       ELSE LET cfg == CHOOSE d \in FindOne(configID) : TRUE
                ext == extractProgramConfig(cfg.tree, progID)
            IN IF ext.removed = <<>>
               THEN last' = rec(ErrProgNotFound) /\ Unchanged
               ELSE LET removed == ext.removed[1]
                        ins == AddResult(ext.list, removed, newParentID)
                    IN IF ~ins.ok
                       THEN last' = rec(ErrParentNotFound) /\ Unchanged
                       ELSE /\ configs' = SetTree(cfg, ins.list)
                            /\ last' = rec(OK)
                            /\ OnlyConfigs

\* client.go UpdateProgramConfig.
UpdateProgramConfig(caller, configID, progID, updates) ==
    LET rec(res) == Call("UpdateProgramConfig", caller, configID, progID,
                         "", updates, res, {})
    IN IF Gate(caller, configID) # OK
       THEN last' = rec(Gate(caller, configID)) /\ Unchanged
       ELSE LET cfg == CHOOSE d \in FindOne(configID) : TRUE
                upd == updateProgramConfigRecursive(cfg.tree, progID, updates)
            IN IF ~upd.ok
               THEN last' = rec(ErrProgNotFound) /\ Unchanged
               ELSE /\ configs' = SetTree(cfg, upd.list)
                    /\ last' = rec(OK)
                    /\ OnlyConfigs

\* ------------------------------------------------- tree-mutation behaviours
\* The tree of the aggregate configID (<<>> when it is not stored).
TreeOf(configID) ==
    IF FindOne(configID) = {} THEN <<>>
    ELSE (CHOOSE d \in FindOne(configID) : TRUE).tree

\* Node identities a caller names in tree calls.
NodeIds == IDs \cup NodeUuids

\* Documents a caller sends to CreateConfig in the tree specification.
SeedTrees ==
    { <<>>,
      <<Leaf("a", "kitty")>>,
      <<Leaf("a", "kitty"), Leaf("b", "kitty")>>,
      <<Parent("a", "kitty", <<Leaf("b", "kitty")>>)>> }

NewCfg(title, private, tree) ==
    [title |-> title, description |-> "", tags |-> {}, private |-> private,
     version |-> Version000, likes |-> 0, tree |-> tree]

TreeCreate ==
    \E id \in CfgIds, tree \in SeedTrees :
        CreateConfig(U1, id, NewCfg("t", FALSE, tree))

TreeAdd ==
    \E id \in CfgIds, nid \in IDs \cup {""}, parent \in NodeIds \cup {""},
       uuid \in NodeUuids :
        /\ Count(TreeOf(id)) + 1 <= MaxNodes
        /\ nid = "" => uuid \notin IdSet(TreeOf(id))
        /\ AddProgramConfig(U1, id, Leaf(nid, "kitty"), parent, uuid)

TreeRemove ==
    \E id \in CfgIds, target \in NodeIds :
        RemoveProgramConfig(U1, id, target)

TreeMove ==
    \E id \in CfgIds, target \in NodeIds, parent \in NodeIds \cup {""} :
        MoveProgramConfig(U1, id, target, parent)

TreeUpdate ==
    \E id \in CfgIds, target \in NodeIds :
        UpdateProgramConfig(U1, id, target, Leaf("", "kitty"))

Next == TreeCreate \/ TreeAdd \/ TreeRemove \/ TreeMove \/ TreeUpdate

Spec == Init /\ [][Next]_vars

\* ------------------------------------------------------ claim vocabulary
RECURSIVE DeleteAt(_, _)
\* A list without the node at a position path (and so without its subtree).
DeleteAt(list, path) ==
    IF Len(path) = 1
    THEN SubSeq(list, 1, path[1] - 1) \o SubSeq(list, path[1] + 1, Len(list))
    ELSE [list EXCEPT ![path[1]].sub = DeleteAt(@, Tail(path))]

\* How many nodes of a list have identity id.
Occurrences(list, id) ==
    Cardinality({i \in 1..Len(IdsOf(list)) : IdsOf(list)[i] = id})

\* All identities of a list are pairwise distinct.
UniqueIds(list) == \A id \in IdSet(list) : Occurrences(list, id) = 1

\* The child list a node appended under parentID lands in: the top level
\* for "", else the SubConfigs of the first pre-order match.
ChildrenOf(list, parentID) ==
    IF parentID = "" THEN list ELSE NodeAt(list, FirstPath(list, parentID)).sub

\* Path of the last child appended under parentID.
LastChildPath(list, parentID) ==
    IF parentID = "" THEN <<Len(list)>>
    ELSE Append(FirstPath(list, parentID), Len(ChildrenOf(list, parentID)))

\* The paths of a list, in pre-order, that neither are nor lie below a node
\* whose identity is id.
Survivors(list, id) ==
    LET ps == PathsOf(list, <<>>)
        dead(q) == \E k \in 1..Len(q) : NodeAt(list, SubSeq(q, 1, k)).id = id
    IN SelectSeq(ps, LAMBDA q : ~dead(q))

\* The one aggregate of the model and its tree before and after a step.
Cfg1 == "c1"
T0 == TreeOf(Cfg1)
T1 == TreeOf(Cfg1)'
Did(op) == last'.op = op /\ last'.cfg = Cfg1
\* The permission gate of the step's call let it through.
Passed == last'.res \notin {ErrUnauthorized, ErrNotFound, ErrForbidden}

\* --------------------------------------------------------------- claims
\* C1: a successful MoveProgramConfig of X changes only X's position: the
\* tree without the moved node equals the old tree without X's subtree, so
\* every other node keeps its parent and its place among its siblings.
C1_MoveKeepsOthers ==
    [][(Did("MoveProgramConfig") /\ last'.res = OK)
        => \E q \in {PathsOf(T1, <<>>)[i] : i \in 1..Len(PathsOf(T1, <<>>))} :
              /\ NodeAt(T1, q).id = last'.target
              /\ DeleteAt(T1, q) = DeleteAt(T0, FirstPath(T0, last'.target))]_vars

\* C2: on a tree with unique identities, moving a present X under no parent
\* or under a present P that is neither X nor below X succeeds, and X then
\* occurs once, as the last child of P (last top-level node for no parent),
\* with its subtree as it was.
C2_MoveLandsUnderParent ==
    [][(/\ Did("MoveProgramConfig") /\ Passed
        /\ UniqueIds(T0)
        /\ last'.target \in IdSet(T0)
        /\ \/ last'.parent = ""
           \/ /\ last'.parent \in IdSet(T0)
              /\ ~IsPrefix(FirstPath(T0, last'.target), FirstPath(T0, last'.parent)))
        => /\ last'.res = OK
           /\ Occurrences(T1, last'.target) = 1
           /\ FirstPath(T1, last'.target) = LastChildPath(T1, last'.parent)
           /\ NodeAt(T1, FirstPath(T1, last'.target))
                = NodeAt(T0, FirstPath(T0, last'.target))]_vars

\* C3: MoveProgramConfig returns an error and leaves the store as it was
\* when the target is absent or when the new parent is absent, is the target
\* or lies below the target; so a successful move puts the node under a
\* node of the old tree that is outside the moved subtree.
C3_MoveFailsAtomically ==
    [][(Did("MoveProgramConfig") /\ Passed)
        => /\ last'.res # OK => configs' = configs
           /\ last'.target \notin IdSet(T0) => last'.res = ErrProgNotFound
           /\ (/\ last'.target \in IdSet(T0)
               /\ last'.parent # ""
               /\ \/ last'.parent \notin IdSet(T0)
                  \/ IsPrefix(FirstPath(T0, last'.target), FirstPath(T0, last'.parent)))
              => last'.res = ErrParentNotFound]_vars

\* C3 witness: a move under a descendant of the target was refused and the
\* target and that descendant are still stored.
C3_Witness ==
    /\ last.op = "MoveProgramConfig" /\ last.res = ErrParentNotFound
    /\ last.target \in IdSet(TreeOf(Cfg1))
    /\ last.parent \in IdSet(TreeOf(Cfg1))
    /\ last.parent # last.target
    /\ IsPrefix(FirstPath(TreeOf(Cfg1), last.target), FirstPath(TreeOf(Cfg1), last.parent))

\* C4: after RemoveProgramConfig of X the stored tree holds exactly the old
\* nodes that neither had identity X nor lay below a node with identity X,
\* in their old order; for an absent X the tree is unchanged.
C4_RemoveCascades ==
    [][(Did("RemoveProgramConfig") /\ last'.res = OK)
        => /\ last'.target \notin IdSet(T1)
           /\ IdsOf(T1) = [i \in 1..Len(Survivors(T0, last'.target)) |->
                             NodeAt(T0, Survivors(T0, last'.target)[i]).id]
           /\ last'.target \notin IdSet(T0) => T1 = T0]_vars

\* C5: AddProgramConfig with no parent appends the new node as the last
\* top-level node; with a parent identity it appends it as the last child
\* of the first pre-order match and touches nothing else; with an identity
\* no node has it fails and the stored tree is unchanged.
C5_AddAppends ==
    [][(Did("AddProgramConfig") /\ Passed)
        => IF last'.parent # "" /\ last'.parent \notin IdSet(T0)
           THEN last'.res = ErrParentNotFound /\ configs' = configs
           ELSE /\ last'.res = OK
                /\ LET q == LastChildPath(T1, last'.parent) IN
                     /\ IF last'.parent = "" THEN Len(T1) = Len(T0) + 1
                        ELSE /\ FirstPath(T1, last'.parent) = FirstPath(T0, last'.parent)
                             /\ Len(ChildrenOf(T1, last'.parent))
                                  = Len(ChildrenOf(T0, last'.parent)) + 1
                     /\ NodeAt(T1, q).program = last'.node.program
                     /\ NodeAt(T1, q).sub = last'.node.sub
                     /\ IF last'.node.id # "" THEN NodeAt(T1, q).id = last'.node.id
                        ELSE NodeAt(T1, q).id \in NodeUuids
                     /\ DeleteAt(T1, q) = T0]_vars

\* C5 witness: a node was added under a parent identity that two nodes
\* carry, so that the first pre-order match decided where it went.
C5_Witness ==
    /\ last.op = "AddProgramConfig" /\ last.res = OK
    /\ last.parent # ""
    /\ Occurrences(TreeOf(Cfg1), last.parent) >= 2

\* C6: for the stored tree T, every childless node N whose identity is not
\* in T and every parent choice (none, or an identity of T), removing N.id
\* from the tree with N inserted gives back T.
C6_InsertRemoveRoundTrip ==
    \A nid \in NodeIds \ IdSet(TreeOf(Cfg1)) :
        \A parent \in IdSet(TreeOf(Cfg1)) \cup {""} :
            /\ AddResult(TreeOf(Cfg1), Leaf(nid, "kitty"), parent).ok
            /\ RemoveResult(AddResult(TreeOf(Cfg1), Leaf(nid, "kitty"), parent).list, nid)
                 = TreeOf(Cfg1)

\* C6 witness: a stored tree with a nested node and a free identity, left
\* by a RemoveProgramConfig that took its target out, so that the round
\* trip runs through a parent below the top level.
C6_Witness ==
    /\ \E i \in 1..Len(TreeOf(Cfg1)) : Len(TreeOf(Cfg1)[i].sub) > 0
    /\ Len(TreeOf(Cfg1)) >= 2
    /\ NodeIds \ IdSet(TreeOf(Cfg1)) # {}
    /\ last.op = "RemoveProgramConfig" /\ last.res = OK
    /\ last.target \notin IdSet(TreeOf(Cfg1))

\* C8: in every stored aggregate all node identities of the whole tree are
\* non-empty and pairwise distinct.
C8_IdsUniqueNonEmpty ==
    \A d \in configs : UniqueIds(d.tree) /\ "" \notin IdSet(d.tree)

\* --------------------------------------------------- node-update behaviours
\* The clock advances.
Tick ==
    /\ now < MaxTime
    /\ now' = now + 1
    /\ last' = Call("Tick", Anon, "", "", "", NoInput, OK, {})
    /\ UNCHANGED <<strace, configs, issued, favorites, applied, programs, inflight>>

\* Identities callers use in the node-update specification.
UpdIds == {"a", "b"}

\* Replacement payloads: each carries an identity, a creation time and
\* children of its own, which the code must not let through.
UpdPayloads ==
    { [Parent("z", p, <<Leaf("y", "evil")>>) EXCEPT !.created = 7]
        : p \in Programs }

NodeCreate ==
    \E id \in CfgIds :
        CreateConfig(U1, id, NewCfg("t", FALSE, <<Leaf("a", "kitty")>>))

NodeAdd ==
    \E id \in CfgIds, nid \in UpdIds, parent \in UpdIds \cup {""}, p \in Programs :
        /\ Count(TreeOf(id)) + 1 <= MaxUpdNodes
        /\ AddProgramConfig(U1, id, Leaf(nid, p), parent, "u")

NodeUpdate ==
    \E id \in CfgIds, target \in UpdIds, updates \in UpdPayloads :
        UpdateProgramConfig(U1, id, target, updates)

NextNode == NodeCreate \/ NodeAdd \/ NodeUpdate \/ Tick

SpecNode == Init /\ [][NextNode]_vars

\* C7: UpdateProgramConfig on a present target replaces the payload of the
\* first pre-order match and keeps that node's identity, creation timestamp
\* and child sequence, whatever the replacement carries; on an absent target
\* it fails with not-found and nothing is written.
C7_UpdateKeepsImmutables ==
    [][(Did("UpdateProgramConfig") /\ Passed)
        => IF last'.target \in IdSet(T0)
           THEN /\ last'.res = OK
                /\ LET q == FirstPath(T0, last'.target) IN
                     /\ NodeAt(T1, q).id = NodeAt(T0, q).id
                     /\ NodeAt(T1, q).created = NodeAt(T0, q).created
                     /\ NodeAt(T1, q).sub = NodeAt(T0, q).sub
                     /\ NodeAt(T1, q).program = last'.node.program
           ELSE last'.res = ErrProgNotFound /\ configs' = configs]_vars

\* C7 witness: a nested node with a child was updated with a payload whose
\* identity, creation time and children all differ from the node's, at a
\* time later than the node's creation.
C7_Witness ==
    /\ last.op = "UpdateProgramConfig" /\ last.res = OK
    /\ LET q == FirstPath(TreeOf(Cfg1), last.target)
           n == NodeAt(TreeOf(Cfg1), q)
       IN /\ Len(q) >= 2
          /\ n.sub # <<>>
          /\ n.program = last.node.program
          /\ n.program = "evil"
          /\ n.id # last.node.id
          /\ n.created # last.node.created
          /\ n.created < now
          /\ n.sub # last.node.sub

\* ------------------------------------------- aggregate-level operations
\* Mutant of bumpPatchVersion: a malformed version is handed back as it
\* is instead of restarting at "0.0.1".
bumpPatchVersion_KeepMalformed(v) ==
    LET parts == Split(v, ".")
    IN IF Len(parts) # 3 THEN v
       ELSE parts[1] \o <<".">> \o parts[2] \o <<".">>
            \o Itoa((IF Atoi(parts[3]).ok THEN Atoi(parts[3]).val ELSE 0) + 1)

\* client.go bumpPatchVersion on the version text.
bumpPatchVersion(v) ==
    LET parts == Split(v, ".")
    IN IF Len(parts) # 3 THEN <<"0", ".", "0", ".", "1">>
       ELSE LET patch == IF Atoi(parts[3]).ok THEN Atoi(parts[3]).val ELSE 0
            IN parts[1] \o <<".">> \o parts[2] \o <<".">> \o Itoa(patch + 1)

\* An update field set (the bson.M of UpdateConfig): one entry per key,
\* <<>> when the key is absent and <<value>> when it is set; an entry
\* <<"string", value>> is a string set under a key whose field is not a
\* string.  The keys are
\* named after the document's fields: id is "_id", owner is "owner_id",
\* created is "created_timestamp", updated is "updated_timestamp" and tree
\* is "program_configs".
NoUpdates ==
    [id |-> <<>>, owner |-> <<>>, private |-> <<>>, title |-> <<>>,
     description |-> <<>>, tags |-> <<>>, version |-> <<>>, likes |-> <<>>,
     created |-> <<>>, updated |-> <<>>, tree |-> <<>>]

\* Mutant of Stripped: the like counter and the owner are left in the
\* field set.
Stripped_KeepsLikesOwner(existing, updates) ==
    [updates EXCEPT !.version = <<bumpPatchVersion(existing.version)>>,
                    !.updated = <<now>>,
                    !.id = <<>>, !.created = <<>>, !.tree = <<>>]

\* The field set UpdateConfig writes: version and updated_timestamp set,
\* then the immutable keys and program_configs deleted.
Stripped(existing, updates) ==
    [updates EXCEPT !.version = <<bumpPatchVersion(existing.version)>>,
                    !.updated = <<now>>,
                    !.id = <<>>, !.owner = <<>>, !.likes = <<>>,
                    !.created = <<>>, !.tree = <<>>]

\* A document with a field set applied: every key that is present
\* replaces the document's field ($set, and the merge before it).
Merge(doc, set) ==
    LET pick(key, old) == IF set[key] = <<>> THEN old ELSE set[key][1]
    IN [id |-> pick("id", doc.id), owner |-> pick("owner", doc.owner),
        private |-> pick("private", doc.private),
        title |-> pick("title", doc.title),
        description |-> pick("description", doc.description),
        tags |-> pick("tags", doc.tags),
        version |-> pick("version", doc.version),
        likes |-> pick("likes", doc.likes),
        created |-> pick("created", doc.created),
        updated |-> pick("updated", doc.updated),
        tree |-> pick("tree", doc.tree)]

ErrDecode == "failed to unmarshal merged BSON into struct"

\* bson.Unmarshal of the merged map into the HyprConfig struct: a string
\* under "private" does not decode into the bool field.
Decodes(set) == Len(set.private) < 2

\* client.go UpdateConfig, recorded as the given call.
UpdateConfigAs(call, caller, id, updates) ==
    LET rec(res) == [call EXCEPT !.res = res, !.ret = IF res = OK THEN @ ELSE {}]
    IN IF Gate(caller, id) # OK
       THEN last' = rec(Gate(caller, id)) /\ Unchanged
       ELSE LET existing == CHOOSE d \in FindOne(id) : TRUE
                set == Stripped(existing, updates)
            IN IF ~Decodes(set)
               THEN last' = rec(ErrDecode) /\ Unchanged
               ELSE IF ~Validate(Merge(existing, set))
               THEN last' = rec(ErrValidation) /\ Unchanged
               ELSE /\ configs' = (configs \ {existing}) \cup {Merge(existing, set)}
                    /\ last' = rec(OK)
                    /\ OnlyConfigs

\* client.go UpdateConfig.
UpdateConfig(caller, id, updates) ==
    UpdateConfigAs(Call("UpdateConfig", caller, id, "", "", updates, OK, {}),
                   caller, id, updates)

\* client.go DeleteConfig.
DeleteConfig(caller, id) ==
    LET rec(res) == Call("DeleteConfig", caller, id, "", "", NoInput, res, {})
    IN IF Gate(caller, id) # OK
       THEN last' = rec(Gate(caller, id)) /\ Unchanged
       ELSE /\ configs' = configs \ FindOne(id)
            /\ last' = rec(OK)
            /\ OnlyConfigs

\* Collection.UpdateByID with $inc on likes: no document, no change.
IncLikes(configID, by) ==
    {IF d.id = configID THEN [d EXCEPT !.likes = @ + by] ELSE d : d \in configs}

\* client.go FavoriteConfig.
FavoriteConfig(caller, configID) ==
    LET rec(res) == Call("FavoriteConfig", caller, configID, "", "", NoInput, res, {})
    IN IF getUserFromContext(caller) # OK
       THEN last' = rec(ErrUnauthorized) /\ Unchanged
       ELSE IF <<caller.id, configID>> \in favorites
       THEN last' = rec(OK) /\ Unchanged
       ELSE /\ favorites' = favorites \cup {<<caller.id, configID>>}
            /\ configs' = IncLikes(configID, 1)
            /\ last' = rec(OK)
            /\ UNCHANGED <<strace, issued, applied, programs, now, inflight>>

\* client.go UnfavoriteConfig.
UnfavoriteConfig(caller, configID) ==
    LET rec(res) == Call("UnfavoriteConfig", caller, configID, "", "", NoInput, res, {})
    IN IF getUserFromContext(caller) # OK
       THEN last' = rec(ErrUnauthorized) /\ Unchanged
       ELSE IF <<caller.id, configID>> \notin favorites
       THEN last' = rec(OK) /\ Unchanged
       ELSE /\ favorites' = favorites \ {<<caller.id, configID>>}
            /\ configs' = IncLikes(configID, -1)
            /\ last' = rec(OK)
            /\ UNCHANGED <<strace, issued, applied, programs, now, inflight>>

\* client.go ApplyConfig: the upsert keyed by user_id.
ApplyConfig(caller, configID) ==
    LET rec(res) == Call("ApplyConfig", caller, configID, "", "", NoInput, res, {})
    IN IF getUserFromContext(caller) # OK
       THEN last' = rec(ErrUnauthorized) /\ Unchanged
       ELSE /\ applied' = {s \in applied : s[1] # caller.id} \cup {<<caller.id, configID>>}
            /\ last' = rec(OK)
            /\ UNCHANGED <<strace, configs, issued, favorites, programs, now, inflight>>

\* --------------------------------------------------------------- reads
\* client.go GetConfig: the error it returns, or OK.
GetConfigRes(caller, id) ==
    IF FindOne(id) = {} THEN ErrNotFound
    ELSE LET cfg == CHOOSE d \in FindOne(id) : TRUE IN
         IF cfg.private /\ (~caller.signedIn
                            \/ (cfg.owner # caller.id /\ ~isAdmin(caller)))
         THEN ErrForbidden
         ELSE OK

\* client.go GetConfig.
GetConfig(caller, id) ==
    /\ last' = Call("GetConfig", caller, id, "", "", NoInput, GetConfigRes(caller, id),
                    IF GetConfigRes(caller, id) = OK THEN FindOne(id) ELSE {})
    /\ Unchanged

\* client.go ListConfigs: the filter private = false OR owner_id = user,
\* the second disjunct only for a signed-in caller; one page holds all.
ListConfigs(caller) ==
    /\ last' = Call("ListConfigs", caller, "", "", "", NoInput, OK,
                    {d \in configs : ~d.private
                                     \/ (caller.signedIn /\ d.owner = caller.id)})
    /\ Unchanged

\* ConfigSearchFilters with nothing given: query, program and owner are ""
\* and tags is empty when not given; the privacy flag and the two bounds
\* of the range are <<>> for nil and <<value>> otherwise.
NoFilters ==
    [query |-> "", tags |-> {}, program |-> "", owner |-> "",
     private |-> <<>>, from |-> <<>>, to |-> <<>>]

\* The characters of the titles, descriptions, tags and queries of the
\* model.
Chars(text) ==
    CASE text = "" -> <<>>
      [] text = "t" -> <<"t">>
      [] text = "Nord" -> <<"N", "o", "r", "d">>
      [] text = "dots" -> <<"d", "o", "t", "s">>
      [] text = "dark" -> <<"d", "a", "r", "k">>
      [] text = "nord" -> <<"n", "o", "r", "d">>
      [] text = "n.rd" -> <<"n", ".", "r", "d">>
      [] text = "DARK" -> <<"D", "A", "R", "K">>

\* Case folding of option i, on the letters of the model.
Fold(c) ==
    CASE c = "N" -> "n" [] c = "D" -> "d" [] c = "A" -> "a"
      [] c = "R" -> "r" [] c = "K" -> "k" [] OTHER -> c

\* $regex with option i: the pattern, in which "." stands for any
\* character and every other character of the model for itself, matches
\* somewhere in the text.
RegexMatch(text, pattern) ==
    \E i \in 1..(Len(text) + 1) :
        /\ i + Len(pattern) - 1 <= Len(text)
        /\ \A k \in 1..Len(pattern) :
              pattern[k] = "." \/ Fold(pattern[k]) = Fold(text[i + k - 1])

\* One condition of a filter document: a field equal to a value ($eq,
\* implicit), a field matching a pattern, tags holding all of a set, or a
\* timestamp within bounds.
Eq(field, value) == [op |-> "eq", field |-> field, value |-> value]
Regex(field, q) == [op |-> "regex", field |-> field, value |-> q]

\* Mutant of buildSearchFilter: the privacy flag asked for is also a way
\* to be visible.
buildSearchFilter_PrivacyVisible(filters, caller) ==
    [or |-> <<Eq("private", FALSE)>>
            \o (IF caller.signedIn THEN <<Eq("owner_id", caller.id)>> ELSE <<>>)
            \o (IF filters.private # <<>>
                THEN <<Eq("private", filters.private[1])>> ELSE <<>>)]

\* util.go buildSearchFilter: the filter document, with the conditions of
\* the filters given under and (the key is left out when there is none)
\* and the visibility conditions under or.
buildSearchFilter(filters, caller) ==
    LET andParts ==
            (IF filters.query # ""
             THEN <<[op |-> "or",
                     of |-> <<Regex("title", filters.query),
                              Regex("description", filters.query),
                              Regex("tags", filters.query)>>]>>
             ELSE <<>>)
            \o (IF filters.tags # {}
                THEN <<[op |-> "all", field |-> "tags", value |-> filters.tags]>>
                ELSE <<>>)
            \o (IF filters.program # ""
                THEN <<Eq("program_configs.program", filters.program)>> ELSE <<>>)
            \o (IF filters.owner # ""
                THEN <<Eq("owner_id", filters.owner)>> ELSE <<>>)
            \o (IF filters.private # <<>>
                THEN <<Eq("private", filters.private[1])>> ELSE <<>>)
            \o (IF filters.from # <<>> \/ filters.to # <<>>
                THEN <<[op |-> "range", field |-> "updated_timestamp",
                        gte |-> filters.from, lte |-> filters.to]>>
                ELSE <<>>)
        orClause ==
            <<Eq("private", FALSE)>>
            \o (IF caller.signedIn THEN <<Eq("owner_id", caller.id)>> ELSE <<>>)
    IN IF Len(andParts) > 0
       THEN [or |-> orClause, and |-> andParts]
       ELSE [or |-> orClause]

\* The values a document has at a field path, as the store reads it: one
\* value for a plain field, the elements for an array, and for
\* "program_configs.program" the program of every element of the top-level
\* array.
ValuesAt(d, field) ==
    CASE field = "title" -> {d.title}
      [] field = "description" -> {d.description}
      [] field = "tags" -> d.tags
      [] field = "owner_id" -> {d.owner}
      [] field = "private" -> {d.private}
      [] field = "updated_timestamp" -> {d.updated}
      [] field = "program_configs.program"
            -> {d.tree[i].program : i \in 1..Len(d.tree)}

\* The store's evaluation of one condition that is not an $or.
HoldsPlain(c, d) ==
    CASE c.op = "eq" -> c.value \in ValuesAt(d, c.field)
      [] c.op = "regex"
            -> \E v \in ValuesAt(d, c.field) : RegexMatch(Chars(v), Chars(c.value))
      [] c.op = "all" -> c.value \subseteq ValuesAt(d, c.field)
      [] c.op = "range"
            -> \E v \in ValuesAt(d, c.field) :
                  /\ c.gte # <<>> => v >= c.gte[1]
                  /\ c.lte # <<>> => v <= c.lte[1]

\* The store's evaluation of one condition.
Holds(c, d) ==
    IF c.op = "or" THEN \E i \in 1..Len(c.of) : HoldsPlain(c.of[i], d)
    ELSE HoldsPlain(c, d)

\* The store's evaluation of a filter document: its keys are conjoined,
\* $or asks for one of its conditions and $and for all of them.
Matches(filter, d) ==
    /\ \E i \in 1..Len(filter.or) : Holds(filter.or[i], d)
    /\ "and" \in DOMAIN filter => \A i \in 1..Len(filter.and) : Holds(filter.and[i], d)

\* client.go ListConfigsWithFilters.  The call is recorded with its
\* filters.
ListConfigsWithFilters(caller, filters) ==
    /\ last' = Call("ListConfigsWithFilters", caller, "", "", "", filters, OK,
                    {d \in configs : Matches(buildSearchFilter(filters, caller), d)})
    /\ Unchanged

\* client.go ListFavorites: the configs whose _id is among the caller's
\* favourite records.
ListFavorites(caller) ==
    /\ IF getUserFromContext(caller) # OK
       THEN last' = Call("ListFavorites", caller, "", "", "", NoInput, ErrUnauthorized, {})
       ELSE last' = Call("ListFavorites", caller, "", "", "", NoInput, OK,
                         {d \in configs : <<caller.id, d.id>> \in favorites})
    /\ Unchanged

\* client.go GetAppliedConfig.
GetAppliedConfig(caller) ==
    LET mine == {s \in applied : s[1] = caller.id}
        rec(res, ret) == Call("GetAppliedConfig", caller, "", "", "", NoInput, res, ret)
    IN /\ IF getUserFromContext(caller) # OK THEN last' = rec(ErrUnauthorized, {})
          ELSE IF mine = {} THEN last' = rec(ErrNotFound, {})
          ELSE LET id == (CHOOSE s \in mine : TRUE)[2] IN
               last' = rec(GetConfigRes(caller, id),
                           IF GetConfigRes(caller, id) = OK THEN FindOne(id) ELSE {})
       /\ Unchanged

\* --------------------------------- authorization/visibility behaviours
\* Field sets callers send to UpdateConfig: a privacy flag, an empty title
\* (fails validation), and one that names immutable fields.
AuthUpdates ==
    {[NoUpdates EXCEPT !.private = <<b>>] : b \in BOOLEAN}
    \cup {[NoUpdates EXCEPT !.title = <<"">>],
          [NoUpdates EXCEPT !.id = <<"c9">>, !.owner = <<"u2">>, !.likes = <<9>>,
                            !.created = <<5>>, !.version = <<Version000>>]}

\* Callers of the favourite and apply operations.
Fans == {Anon, U2}

\* The stored version of an aggregate can still be bumped within the bound.
CanBump(id) ==
    \A d \in FindOne(id) :
        Len(Split(d.version, ".")) = 3
            => Atoi(Split(d.version, ".")[3]).val < MaxPatch

AuthCreate ==
    \E caller \in {Anon, U1}, id \in CfgIds, private \in BOOLEAN :
        CreateConfig(caller, id, NewCfg("t", private, <<Leaf("a", "kitty")>>))

AuthUpdateConfig ==
    \E caller \in Callers, id \in CfgIds, updates \in AuthUpdates :
        CanBump(id) /\ UpdateConfig(caller, id, updates)

AuthDeleteConfig ==
    \E caller \in Callers, id \in CfgIds : DeleteConfig(caller, id)

AuthAdd ==
    \E caller \in Callers, id \in CfgIds :
        /\ Count(TreeOf(id)) + 1 <= MaxAuthNodes
        /\ AddProgramConfig(caller, id, Leaf("a", "kitty"), "", "u")

AuthRemove ==
    \E caller \in Callers, id \in CfgIds : RemoveProgramConfig(caller, id, "a")

AuthMove ==
    \E caller \in Callers, id \in CfgIds : MoveProgramConfig(caller, id, "a", "")

AuthUpdateProgram ==
    \E caller \in Callers, id \in CfgIds :
        UpdateProgramConfig(caller, id, "a", Leaf("", "kitty"))

AuthFavorite == \E caller \in Fans, id \in CfgIds : FavoriteConfig(caller, id)

AuthUnfavorite == \E caller \in Fans, id \in CfgIds : UnfavoriteConfig(caller, id)

AuthApply == \E caller \in Fans, id \in CfgIds : ApplyConfig(caller, id)

AuthGet == \E caller \in Callers, id \in CfgIds : GetConfig(caller, id)

AuthList == \E caller \in Callers : ListConfigs(caller)

AuthSearch ==
    \E caller \in Callers, f \in {NoFilters, [NoFilters EXCEPT !.private = <<TRUE>>]} :
        ListConfigsWithFilters(caller, f)

AuthListFavorites == \E caller \in Callers : ListFavorites(caller)

AuthGetApplied == \E caller \in Callers : GetAppliedConfig(caller)

NextAuth ==
    \/ AuthCreate \/ AuthUpdateConfig \/ AuthDeleteConfig
    \/ AuthAdd \/ AuthRemove \/ AuthMove \/ AuthUpdateProgram
    \/ AuthFavorite \/ AuthUnfavorite \/ AuthApply
    \/ AuthGet \/ AuthList \/ AuthSearch \/ AuthListFavorites \/ AuthGetApplied

SpecAuth == Init /\ [][NextAuth]_vars

Mutators ==
    {"UpdateConfig", "DeleteConfig", "AddProgramConfig", "RemoveProgramConfig",
     "MoveProgramConfig", "UpdateProgramConfig"}

Reads ==
    {"GetConfig", "ListConfigs", "ListConfigsWithFilters", "ListFavorites",
     "GetAppliedConfig"}

StoreUnchanged == UNCHANGED <<configs, favorites, applied, programs>>

\* C9: a mutating operation called without a signed-in identity returns
\* Unauthorized, one called on a stored aggregate by a signed-in caller who
\* is neither its owner nor an administrator returns Forbidden, and in both
\* cases nothing in the store changes.
C9_MutationsAuthorized ==
    [][last'.op \in Mutators
        => /\ ~last'.caller.signedIn
                => (last'.res = ErrUnauthorized /\ StoreUnchanged)
           /\ (/\ last'.caller.signedIn
               /\ ~last'.caller.admin
               /\ \E d \in FindOne(last'.cfg) : d.owner # last'.caller.id)
                => (last'.res = ErrForbidden /\ StoreUnchanged)]_vars

\* C9 witness: a signed-in caller who is neither owner nor administrator
\* was refused a tree mutation on a stored aggregate.
C9_Witness ==
    /\ last.op = "RemoveProgramConfig" /\ last.res = ErrForbidden
    /\ last.caller.signedIn /\ ~last.caller.admin
    /\ \E d \in FindOne(last.cfg) : d.owner # last.caller.id /\ d.tree # <<>>

\* C10: no read operation returns a private aggregate to a caller who is
\* neither its owner nor an administrator.
C10_PrivateNeverReturned ==
    last.op \in Reads
        => \A d \in last.ret :
              d.private => /\ last.caller.signedIn
                           /\ (d.owner = last.caller.id \/ last.caller.admin)

\* -------------------------------------------------- version behaviours
\* Characters of the version texts tried: digits (with the carry digit 9),
\* the separator, a letter and a sign.
VerChars == {"0", "1", "9", ".", "x", "-"}

\* All texts over VerChars of at most MaxVerLen characters.
VersionTexts ==
    UNION {[1..n -> VerChars] : n \in 0..MaxVerLen}

\* Any stored version text.
InitVersion ==
    /\ configs = {}
    /\ issued = {}
    /\ favorites = {}
    /\ applied = {}
    /\ programs = {}
    /\ now = 0
    /\ inflight = [p \in Procs |-> IdleProc]
    /\ strace = NoStrace
    /\ \E v \in VersionTexts :
          last = Call("version", Anon, "", "", "", v, OK, <<>>)

\* UpdateConfig's newVersion := bumpPatchVersion(existing.Version).
VersionBump ==
    /\ last.op = "version"
    /\ last' = Call("bumpPatchVersion", Anon, "", "", "", last.node, OK,
                    bumpPatchVersion(last.node))
    /\ Unchanged

NextVersion == VersionBump

SpecVersion == InitVersion /\ [][NextVersion]_vars

\* Positions of the separator in a version text and, for a text with two
\* separators, its three components.
DotsAt(v) == {i \in 1..Len(v) : v[i] = "."}
ThreeParts(v) == Cardinality(DotsAt(v)) = 2
FirstDot(v) == CHOOSE i \in DotsAt(v) : \A j \in DotsAt(v) : i <= j
LastDot(v) == CHOOSE i \in DotsAt(v) : \A j \in DotsAt(v) : i >= j
Major(v) == SubSeq(v, 1, FirstDot(v) - 1)
Minor(v) == SubSeq(v, FirstDot(v) + 1, LastDot(v) - 1)
Patch(v) == SubSeq(v, LastDot(v) + 1, Len(v))

\* A non-empty run of decimal digits, and the number it denotes.
IsNumeral(t) == t # <<>> /\ \A i \in 1..Len(t) : IsDigit(t[i])

RECURSIVE ValueOf(_)
ValueOf(t) ==
    IF t = <<>> THEN 0
    ELSE 10 * ValueOf(SubSeq(t, 1, Len(t) - 1)) + DigitVal(t[Len(t)])

\* C12: bumpPatchVersion turns MAJOR.MINOR.PATCH with a numeric PATCH into
\* MAJOR.MINOR.(PATCH+1), the new patch written as a plain decimal number
\* and MAJOR and MINOR untouched, and turns every text that does not have
\* exactly three dot-separated components into "0.0.1".
C12_BumpPatch ==
    last.op = "bumpPatchVersion"
        => LET v == last.node
               r == last.ret
           IN /\ (ThreeParts(v) /\ IsNumeral(Patch(v)))
                    => /\ ThreeParts(r)
                       /\ Major(r) = Major(v)
                       /\ Minor(r) = Minor(v)
                       /\ IsNumeral(Patch(r))
                       /\ ValueOf(Patch(r)) = ValueOf(Patch(v)) + 1
                       /\ Len(Patch(r)) = 1 \/ Patch(r)[1] # "0"
              /\ ~ThreeParts(v) => r = <<"0", ".", "0", ".", "1">>

\* C12 witness: a three-component version whose patch 9 carries into a
\* second digit was bumped.
C12_Witness ==
    /\ last.op = "bumpPatchVersion"
    /\ ThreeParts(last.node)
    /\ Major(last.node) = <<"1">>
    /\ Patch(last.node) = <<"9">>
    /\ Patch(last.ret) = <<"1", "0">>

\* ------------------------------------------- version and validity claims
StructuralOps ==
    {"AddProgramConfig", "RemoveProgramConfig", "MoveProgramConfig",
     "UpdateProgramConfig"}

\* The stored aggregate configID (only used where it is stored).
DocOf(configID) == CHOOSE d \in FindOne(configID) : TRUE

\* The version of the aggregate Cfg1 before and after a step.
V0 == DocOf(Cfg1).version
V1 == DocOf(Cfg1)'.version

\* C13: every successful UpdateConfig, AddProgramConfig,
\* RemoveProgramConfig, MoveProgramConfig or UpdateProgramConfig on an
\* aggregate whose version is MAJOR.MINOR.PATCH with a numeric patch
\* leaves the stored version with the same MAJOR and MINOR and the patch
\* component one greater than before.
C13_MutationsBumpPatch ==
    [][(/\ last'.op \in StructuralOps \cup {"UpdateConfig"}
        /\ last'.cfg = Cfg1
        /\ last'.res = OK
        /\ FindOne(Cfg1) # {}
        /\ ThreeParts(V0)
        /\ IsNumeral(Patch(V0)))
        => /\ ThreeParts(V1)
           /\ Major(V1) = Major(V0)
           /\ Minor(V1) = Minor(V0)
           /\ IsNumeral(Patch(V1))
           /\ ValueOf(Patch(V1)) = ValueOf(Patch(V0)) + 1]_vars

\* C14: after every successful AddProgramConfig, RemoveProgramConfig,
\* MoveProgramConfig or UpdateProgramConfig the stored aggregate is valid:
\* its title is not empty, it has at least one top-level node, and the
\* program of every node is in the static whitelist or in the allowed
\* programs.
C14_StructuralChangeValidated ==
    [][(last'.op \in StructuralOps /\ last'.cfg = Cfg1 /\ last'.res = OK)
        => \A d \in FindOne(Cfg1)' :
              /\ d.title # ""
              /\ Len(d.tree) >= 1
              /\ \A i \in 1..Len(PreOrder(d.tree)) :
                    \/ PreOrder(d.tree)[i].program \in validPrograms
                    \/ PreOrder(d.tree)[i].program \in programs']_vars

\* ------------------------------------------------------ store-call steps
\* The operations again, one action per store call, so that the calls of
\* two requests can interleave and a store call can fail.  fails tells
\* whether the store call of the step returns an I/O error.
ErrStore == "store failure"

\* Number of writes made to configs so far by the calls in the slots.
Writes ==
    CHOOSE m \in {inflight[p].order : p \in Procs} :
        \A q \in Procs : inflight[q].order <= m

\* The collections a call can write.
StoreNow == [configs |-> configs, favorites |-> favorites, applied |-> applied]

\* Slot p as a call begins in it.
Begun(p, call) ==
    [inflight[p] EXCEPT !.call = call, !.before = <<StoreNow>>,
                        !.loaded = <<>>, !.modified = FALSE,
                        !.loadedAt = Writes, !.wrote = <<>>,
                        !.calls = @ + 1]

\* The call in slot p returns res without a write in this step.
Return(p, slot, res) ==
    /\ last' = [slot.call EXCEPT !.res = res]
    /\ inflight' = [inflight EXCEPT ![p] = [slot EXCEPT !.pc = "idle"]]
    /\ UNCHANGED <<strace, configs, issued, favorites, applied, programs, now>>

\* First part of AddProgramConfig, RemoveProgramConfig and UpdateConfig:
\* session, Collection.FindOne, owner-or-admin check.
LoadStep(p, call, fails) ==
    /\ inflight[p].pc = "idle"
    /\ IF getUserFromContext(call.caller) # OK
       THEN Return(p, Begun(p, call), ErrUnauthorized)
       ELSE IF fails THEN Return(p, Begun(p, call), ErrStore)
       ELSE IF Gate(call.caller, call.cfg) # OK
       THEN Return(p, Begun(p, call), Gate(call.caller, call.cfg))
       ELSE /\ inflight' = [inflight EXCEPT ![p] =
                               [Begun(p, call) EXCEPT !.pc = "loaded",
                                                     !.loaded = <<DocOf(call.cfg)>>]]
            /\ UNCHANGED <<strace, configs, issued, favorites, applied, programs, now, last>>

\* AddProgramConfig up to its permission check.
AddBegin(p, caller, configID, newProg, parentID, fails) ==
    LoadStep(p, Call("AddProgramConfig", caller, configID, newProg.id, parentID,
                     newProg, OK, {}), fails)

\* AddProgramConfig from the identity assignment to the UpdateByID.
AddWrite(p, uuid, fails) ==
    /\ inflight[p].pc = "loaded"
    /\ inflight[p].call.op = "AddProgramConfig"
    /\ LET slot == inflight[p]
           c == slot.call
           cfg == slot.loaded[1]
           prog == [c.node EXCEPT
                      !.id = IF c.node.id = "" THEN uuid ELSE c.node.id,
                      !.created = now]
           ins == AddResult(cfg.tree, prog, c.parent)
       IN IF ~ins.ok THEN Return(p, slot, ErrParentNotFound)
          ELSE IF fails THEN Return(p, slot, ErrStore)
          ELSE /\ configs' = SetTree(cfg, ins.list)
               /\ last' = [c EXCEPT !.res = OK]
               /\ inflight' = [inflight EXCEPT ![p] =
                                  [slot EXCEPT !.pc = "idle", !.order = Writes + 1,
                                               !.wrote = <<ins.list>>]]
               /\ UNCHANGED <<strace, issued, favorites, applied, programs, now>>

\* RemoveProgramConfig up to its permission check.
RemoveBegin(p, caller, configID, progID, fails) ==
    LoadStep(p, Call("RemoveProgramConfig", caller, configID, progID, "",
                     NoInput, OK, {}), fails)

\* RemoveProgramConfig's $pull, applied by the store to the document as it
\* is stored at that moment.
RemovePull(p, fails) ==
    /\ inflight[p].pc = "loaded"
    /\ inflight[p].call.op = "RemoveProgramConfig"
    /\ LET slot == inflight[p]
           c == slot.call
           modified == \E d \in FindOne(c.cfg) :
                           pullTopLevel(d.tree, c.target) # d.tree
       IN IF fails THEN Return(p, slot, ErrStore)
          ELSE /\ configs' = {IF d.id = c.cfg
                              THEN [d EXCEPT !.tree = pullTopLevel(d.tree, c.target)]
                              ELSE d : d \in configs}
               /\ inflight' = [inflight EXCEPT ![p] =
                                  [slot EXCEPT !.pc = "pulled", !.modified = modified,
                                               !.order = IF modified THEN Writes + 1
                                                         ELSE @]]
               /\ UNCHANGED <<strace, issued, favorites, applied, programs, now, last>>

\* RemoveProgramConfig after the $pull: when the $pull modified the
\* document, the $set of updated_timestamp, whose error is dropped, and
\* return nil; else the $set of the loaded tree filtered by
\* removeNestedProgramConfig.
RemoveFinish(p, fails) ==
    /\ inflight[p].pc = "pulled"
    /\ LET slot == inflight[p]
           c == slot.call
           cfg == slot.loaded[1]
           list == removeNestedProgramConfig(cfg.tree, c.target)
       IN IF slot.modified
          THEN /\ configs' = IF fails THEN configs
                             ELSE {IF d.id = c.cfg THEN [d EXCEPT !.updated = now]
                                   ELSE d : d \in configs}
               /\ last' = [c EXCEPT !.res = OK]
               /\ inflight' = [inflight EXCEPT ![p] = [slot EXCEPT !.pc = "idle"]]
               /\ UNCHANGED <<strace, issued, favorites, applied, programs, now>>
          ELSE IF fails THEN Return(p, slot, ErrStore)
          ELSE /\ configs' = SetTree(cfg, list)
               /\ last' = [c EXCEPT !.res = OK]
               /\ inflight' = [inflight EXCEPT ![p] =
                                  [slot EXCEPT !.pc = "idle", !.order = Writes + 1,
                                               !.wrote = <<list>>]]
               /\ UNCHANGED <<strace, issued, favorites, applied, programs, now>>

\* UpdateConfig up to its permission check.
UpdateConfigBegin(p, caller, id, updates, fails) ==
    LoadStep(p, Call("UpdateConfig", caller, id, "", "", updates, OK, {}), fails)

\* UpdateConfig from the version bump to the UpdateOne: the field set is
\* computed from the loaded document and applied by the store to the
\* document as it is stored at that moment.
UpdateConfigWrite(p, fails) ==
    /\ inflight[p].pc = "loaded"
    /\ inflight[p].call.op = "UpdateConfig"
    /\ LET slot == inflight[p]
           c == slot.call
           existing == slot.loaded[1]
           set == Stripped(existing, c.node)
       IN IF ~Decodes(set) THEN Return(p, slot, ErrDecode)
          ELSE IF ~Validate(Merge(existing, set)) THEN Return(p, slot, ErrValidation)
          ELSE IF fails THEN Return(p, slot, ErrStore)
          ELSE /\ configs' = {IF d.id = c.cfg THEN Merge(d, set) ELSE d : d \in configs}
               /\ last' = [c EXCEPT !.res = OK]
               /\ inflight' = [inflight EXCEPT ![p] =
                                  [slot EXCEPT !.pc = "idle", !.order = Writes + 1,
                                               !.okUpdates = @ + 1]]
               /\ UNCHANGED <<strace, issued, favorites, applied, programs, now>>

\* FavoriteConfig up to its FindOne on the favourites: a result without
\* error means already favourited; every error, the store's failure
\* included, lets the call go on to the insert.
FavoriteFind(p, caller, configID, fails) ==
    /\ inflight[p].pc = "idle"
    /\ LET call == Call("FavoriteConfig", caller, configID, "", "", NoInput, OK, {})
       IN IF getUserFromContext(caller) # OK
          THEN Return(p, Begun(p, call), ErrUnauthorized)
          ELSE IF ~fails /\ <<caller.id, configID>> \in favorites
          THEN Return(p, Begun(p, call), OK)
          ELSE /\ inflight' = [inflight EXCEPT ![p] =
                                  [Begun(p, call) EXCEPT !.pc = "checked"]]
               /\ UNCHANGED <<strace, configs, issued, favorites, applied, programs, now, last>>

\* FavoriteConfig's InsertOne; the unique index on (user_id, config_id)
\* refuses a second record for the pair.
FavoriteInsert(p, fails) ==
    /\ inflight[p].pc = "checked"
    /\ LET slot == inflight[p]
           c == slot.call
       IN IF fails \/ <<c.caller.id, c.cfg>> \in favorites
          THEN Return(p, slot, ErrStore)
          ELSE /\ favorites' = favorites \cup {<<c.caller.id, c.cfg>>}
               /\ inflight' = [inflight EXCEPT ![p] = [slot EXCEPT !.pc = "inserted"]]
               /\ UNCHANGED <<strace, configs, issued, applied, programs, now, last>>

\* FavoriteConfig's UpdateByID with $inc likes 1.
FavoriteInc(p, fails) ==
    /\ inflight[p].pc = "inserted"
    /\ LET slot == inflight[p]
           c == slot.call
       IN IF fails THEN Return(p, slot, ErrStore)
          ELSE /\ configs' = IncLikes(c.cfg, 1)
               /\ last' = [c EXCEPT !.res = OK]
               /\ inflight' = [inflight EXCEPT ![p] = [slot EXCEPT !.pc = "idle"]]
               /\ UNCHANGED <<strace, issued, favorites, applied, programs, now>>

\* UnfavoriteConfig up to its DeleteOne: DeletedCount = 0 returns nil.
UnfavoriteDelete(p, caller, configID, fails) ==
    /\ inflight[p].pc = "idle"
    /\ LET call == Call("UnfavoriteConfig", caller, configID, "", "", NoInput, OK, {})
       IN IF getUserFromContext(caller) # OK
          THEN Return(p, Begun(p, call), ErrUnauthorized)
          ELSE IF fails THEN Return(p, Begun(p, call), ErrStore)
          ELSE IF <<caller.id, configID>> \notin favorites
          THEN Return(p, Begun(p, call), OK)
          ELSE /\ favorites' = favorites \ {<<caller.id, configID>>}
               /\ inflight' = [inflight EXCEPT ![p] =
                                  [Begun(p, call) EXCEPT !.pc = "deleted"]]
               /\ UNCHANGED <<strace, configs, issued, applied, programs, now, last>>

\* UnfavoriteConfig's UpdateByID with $inc likes -1.
UnfavoriteDec(p, fails) ==
    /\ inflight[p].pc = "deleted"
    /\ LET slot == inflight[p]
           c == slot.call
       IN IF fails THEN Return(p, slot, ErrStore)
          ELSE /\ configs' = IncLikes(c.cfg, -1)
               /\ last' = [c EXCEPT !.res = OK]
               /\ inflight' = [inflight EXCEPT ![p] = [slot EXCEPT !.pc = "idle"]]
               /\ UNCHANGED <<strace, issued, favorites, applied, programs, now>>

\* ------------------------------------------------ interleaved behaviours
\* Two requests of the owner on one aggregate whose tree is a{b}.
RaceSeed == <<Parent("a", "kitty", <<Leaf("b", "kitty")>>)>>
RaceNewIds == {"x", "y"}
CanCall(p) == inflight[p].calls < MaxRaceCalls

RaceCreate ==
    \E id \in CfgIds : CreateConfig(U1, id, NewCfg("t", FALSE, RaceSeed))

RaceAddBegin ==
    \E p \in Procs, nid \in RaceNewIds, parent \in {"", "a"} :
        CanCall(p) /\ AddBegin(p, U1, Cfg1, Leaf(nid, "kitty"), parent, FALSE)

RaceAddWrite == \E p \in Procs : AddWrite(p, "u", FALSE)

RaceRemoveBegin ==
    \E p \in Procs, target \in {"a", "b"} :
        CanCall(p) /\ RemoveBegin(p, U1, Cfg1, target, FALSE)

RaceRemovePull == \E p \in Procs : RemovePull(p, FALSE)

RaceRemoveFinish == \E p \in Procs : RemoveFinish(p, FALSE)

RaceUpdateBegin ==
    \E p \in Procs :
        CanCall(p) /\ UpdateConfigBegin(p, U1, Cfg1,
                                        [NoUpdates EXCEPT !.private = <<TRUE>>], FALSE)

RaceUpdateWrite == \E p \in Procs : UpdateConfigWrite(p, FALSE)

NextRace ==
    \/ RaceCreate
    \/ RaceAddBegin \/ RaceAddWrite
    \/ RaceRemoveBegin \/ RaceRemovePull \/ RaceRemoveFinish
    \/ RaceUpdateBegin \/ RaceUpdateWrite

SpecRace == Init /\ [][NextRace]_vars

\* Slot p's latest call has returned after writing program_configs whole.
WroteTree(p) ==
    /\ inflight[p].pc = "idle"
    /\ inflight[p].order > inflight[p].loadedAt
    /\ inflight[p].wrote # <<>>

\* The calls of p and q overlapped: each loaded before the other wrote, p
\* wrote first, q wrote next, and nothing was written since.
Overlapped(p, q) ==
    /\ p # q
    /\ WroteTree(p) /\ WroteTree(q)
    /\ inflight[q].order = inflight[p].order + 1
    /\ inflight[q].loadedAt < inflight[p].order
    /\ Writes = inflight[q].order

\* C15: when two structural mutations of one aggregate overlap (each loads
\* before the other writes) and both succeed, the stored tree is the tree
\* the later writer computed from its own load, and a node the earlier
\* writer added (under an identity that neither the later writer's load
\* nor its own new node carries) is not in it.
C15_LastWriterWins ==
    \A p, q \in Procs :
        Overlapped(p, q)
            => /\ TreeOf(Cfg1) = inflight[q].wrote[1]
               /\ (/\ inflight[p].call.op = "AddProgramConfig"
                   /\ inflight[p].call.node.id # inflight[q].call.node.id
                   /\ inflight[p].call.node.id \notin IdSet(inflight[q].loaded[1].tree))
                    => inflight[p].call.node.id \notin IdSet(TreeOf(Cfg1))

\* C15 witness: two AddProgramConfig calls overlapped, both succeeded, and
\* only the later one's node is stored.
C15_Witness ==
    \E p, q \in Procs :
        /\ Overlapped(p, q)
        /\ inflight[p].call.op = "AddProgramConfig"
        /\ inflight[q].call.op = "AddProgramConfig"
        /\ inflight[p].call.node.id # inflight[q].call.node.id
        /\ inflight[q].call.node.id \in IdSet(TreeOf(Cfg1))
        /\ inflight[p].call.node.id \notin IdSet(TreeOf(Cfg1))
        /\ Count(TreeOf(Cfg1)) = Count(RaceSeed) + 1

\* C16: the patch component of the stored version exceeds the patch at
\* creation (0) by the number of UpdateConfig calls that returned success.
C16_PatchCountsUpdates ==
    FindOne(Cfg1) # {}
        => /\ ThreeParts(DocOf(Cfg1).version)
           /\ IsNumeral(Patch(DocOf(Cfg1).version))
           /\ ValueOf(Patch(DocOf(Cfg1).version))
                = inflight[1].okUpdates + inflight[2].okUpdates

\* ------------------------------------------- failing-store behaviours
\* One request at a time (slot 1); every store call may fail.
FailCanCall == inflight[1].calls < MaxFailCalls

FailCreate ==
    \E id \in CfgIds : CreateConfig(U1, id, NewCfg("t", FALSE, RaceSeed))

FailAddBegin ==
    \E parent \in {"", "a"}, fails \in BOOLEAN :
        FailCanCall /\ AddBegin(1, U1, Cfg1, Leaf("x", "kitty"), parent, fails)

FailAddWrite == \E fails \in BOOLEAN : AddWrite(1, "u", fails)

FailRemoveBegin ==
    \E target \in {"a", "b"}, fails \in BOOLEAN :
        FailCanCall /\ RemoveBegin(1, U1, Cfg1, target, fails)

FailRemovePull == \E fails \in BOOLEAN : RemovePull(1, fails)

FailRemoveFinish == \E fails \in BOOLEAN : RemoveFinish(1, fails)

FailFavoriteFind ==
    \E caller \in Fans, fails \in BOOLEAN :
        FailCanCall /\ FavoriteFind(1, caller, Cfg1, fails)

FailFavoriteInsert == \E fails \in BOOLEAN : FavoriteInsert(1, fails)

FailFavoriteInc == \E fails \in BOOLEAN : FavoriteInc(1, fails)

FailUnfavoriteDelete ==
    \E caller \in Fans, fails \in BOOLEAN :
        FailCanCall /\ UnfavoriteDelete(1, caller, Cfg1, fails)

FailUnfavoriteDec == \E fails \in BOOLEAN : UnfavoriteDec(1, fails)

NextFail ==
    \/ FailCreate \/ Tick
    \/ FailAddBegin \/ FailAddWrite
    \/ FailRemoveBegin \/ FailRemovePull \/ FailRemoveFinish
    \/ FailFavoriteFind \/ FailFavoriteInsert \/ FailFavoriteInc
    \/ FailUnfavoriteDelete \/ FailUnfavoriteDec

SpecFail == Init /\ [][NextFail]_vars

\* The call in slot 1 returns in this step.
Returned ==
    /\ inflight'[1].pc = "idle"
    /\ inflight[1].pc # "idle" \/ inflight'[1].calls # inflight[1].calls

\* The like counter of aggregate id in a set of documents (0 if absent).
LikesIn(docs, id) ==
    IF \E d \in docs : d.id = id
    THEN (CHOOSE d \in docs : d.id = id).likes ELSE 0

\* C17: a call that returns an error leaves aggregates, favourite records
\* and applied states exactly as they were when it began, and a call that
\* returns success has all its writes in the store: FavoriteConfig the
\* record and the like counter raised for a new record, UnfavoriteConfig
\* the record gone and the counter lowered for a removed record,
\* RemoveProgramConfig and AddProgramConfig the new tree and the update
\* timestamp.
C17_NoPartialSuccess ==
    [][Returned
        => LET b == inflight'[1].before[1]
               c == last'
               pair == <<c.caller.id, c.cfg>>
           IN /\ c.res # OK => StoreNow' = b
              /\ (c.res = OK /\ c.op = "FavoriteConfig")
                    => /\ pair \in favorites'
                       /\ pair \notin b.favorites
                            => LikesIn(configs', c.cfg) = LikesIn(b.configs, c.cfg) + 1
              /\ (c.res = OK /\ c.op = "UnfavoriteConfig")
                    => /\ pair \notin favorites'
                       /\ pair \in b.favorites
                            => LikesIn(configs', c.cfg) = LikesIn(b.configs, c.cfg) - 1
              /\ (c.res = OK /\ c.op \in {"RemoveProgramConfig", "AddProgramConfig"})
                    => \A d \in {e \in configs' : e.id = c.cfg} :
                          /\ d.updated = now'
                          /\ c.op = "RemoveProgramConfig"
                                => c.target \notin {d.tree[i].id : i \in 1..Len(d.tree)}
                          /\ c.op = "AddProgramConfig"
                                => Count(d.tree) = Count(T0) + 1]_vars

\* C18: UpdateConfig leaves the identity, the owner, the like counter and
\* the creation timestamp of the aggregate as they were, whatever keys the
\* caller's field set holds, and a call that fails (validation of the
\* merged aggregate included) leaves the stored aggregates unchanged.
C18_UpdateConfigKeepsImmutables ==
    [][(Did("UpdateConfig") /\ FindOne(Cfg1) # {})
        => /\ \E e \in configs' :
                 /\ e.id = DocOf(Cfg1).id
                 /\ e.owner = DocOf(Cfg1).owner
                 /\ e.likes = DocOf(Cfg1).likes
                 /\ e.created = DocOf(Cfg1).created
           /\ Cardinality(configs') = Cardinality(configs)
           /\ last'.res # OK => configs' = configs
           /\ (last'.node.title = <<"">> /\ Passed) => last'.res = ErrValidation]_vars

\* C18 witness: an UpdateConfig whose field set names another identity,
\* owner, like counter and creation timestamp succeeded.
C18_Witness ==
    /\ last.op = "UpdateConfig" /\ last.res = OK
    /\ FindOne(Cfg1) # {}
    /\ last.node.id # <<>> /\ last.node.id[1] # DocOf(Cfg1).id
    /\ last.node.owner # <<>> /\ last.node.owner[1] # DocOf(Cfg1).owner
    /\ last.node.likes # <<>> /\ last.node.likes[1] # DocOf(Cfg1).likes
    /\ last.node.created # <<>> /\ last.node.created[1] # DocOf(Cfg1).created
    /\ DocOf(Cfg1).version # Version000

\* ------------------------------------------------- validation behaviours
\* An administrator changes the allowed programs and a user creates
\* aggregates whose nodes declare programs and carry file content; the
\* lookups of a CreateConfig call may fail.

\* Names outside validPrograms that nodes declare, contents launch and the
\* administrator allows.
ValNames == {"evil", "tool"}

\* File contents: an exec-once directive launching "evil"; a variable
\* holding "tool" launched next to "kitty"; a commented-out directive
\* followed by a bind line that runs "tool".
LaunchEvil == << <<"exec-once", "=", "evil", "--now">> >>
LaunchVar ==
    << <<"$term", "=", "tool">>,
       <<"exec-once", "=", "$term", "&", "kitty", "-e">> >>
BindTool ==
    << <<"#", "exec-once", "=", "evil">>,
       <<"bind", "=", "Q", ",", "exec", ",", "tool">> >>

\* The file contents nodes carry, each as <<content, hash>>.
ValFiles ==
    { <<<<>>, "">>, <<LaunchEvil, "h1">>, <<LaunchEvil, "">>,
      <<LaunchVar, "h1">>, <<BindTool, "h1">> }

\* The nodes with given children: every program name with every file.
ValNodes(id, kids) ==
    { [id |-> id, program |-> p, created |-> 0, content |-> f[1],
       hash |-> f[2], sub |-> k] :
        p \in validPrograms \cup ValNames, f \in ValFiles, k \in kids }

\* The trees created: one top-level node, alone or with one nested node.
ValTrees ==
    {<<n>> : n \in ValNodes("a", {<<>>} \cup {<<m>> : m \in ValNodes("b", {<<>>})})}

ValAllow ==
    \E caller \in {Adm, U1}, name \in ValNames \cup {" Tool ", " "} :
        AddAllowedProgram(caller, name)

ValDisallow ==
    \E caller \in {Adm, U1}, name \in ValNames \cup {" Tool ", " "} :
        RemoveAllowedProgram(caller, name)

\* A CreateConfig call follows the start or a change of the allowed
\* programs.
ValCreate ==
    \E id \in CfgIds, tree \in ValTrees,
       failing \in SUBSET ValNames :
        /\ last.op # "CreateConfig" /\ last.res = OK
        /\ CreateConfigVia(U1, id, NewCfg("t", FALSE, tree),
                           [found |-> programs, failing |-> failing])

NextValidate == ValAllow \/ ValDisallow \/ ValCreate

SpecValidate == Init /\ [][NextValidate]_vars

\* The last call was a CreateConfig that reached validation.
Validated == last.op = "CreateConfig" /\ last.ret # {}

\* What that call was given and what its validation returned.
Told == CHOOSE t \in last.ret : TRUE

\* The program names the nodes of a tree declare, at any depth.
DeclaredNames(tree) ==
    {PreOrder(tree)[i].program : i \in 1..Len(PreOrder(tree))}

\* The nodes of a tree, at any depth, that carry both content and a hash.
WithContent(tree) ==
    {n \in {PreOrder(tree)[i] : i \in 1..Len(PreOrder(tree))} :
        n.content # <<>> /\ n.hash # ""}

\* A name is allowed: in the static whitelist, or the lookup answers and
\* finds it.
Allowed(gw, name) ==
    name \in validPrograms \/ (name \in gw.found /\ name \notin gw.failing)

\* C19: validation accepts a program name iff it is in the static
\* whitelist or the lookup confirms it.  For a tree whose nodes carry no
\* content to check, CreateConfig succeeds iff every declared name is
\* allowed; no name of the static whitelist is ever looked up; and when a
\* declared name is neither whitelisted nor confirmed (not found, or the
\* lookup failed) the call fails with a validation error, which names a
\* declared name that is not allowed.
C19_NameAcceptedIffAllowed ==
    Validated =>
        LET t == Told
            off == {n \in DeclaredNames(t.tree) : ~Allowed(t.gw, n)}
        IN /\ \A i \in 1..Len(t.run.calls) : t.run.calls[i] \notin validPrograms
           /\ off # {} => last.res = ErrValidation
           /\ WithContent(t.tree) = {}
                => /\ last.res = OK <=> off = {}
                   /\ off # {} => t.run.bad \in off
                   /\ \A i \in 1..Len(t.run.calls) :
                        t.run.calls[i] \in DeclaredNames(t.tree)

\* C19 witness: a tree declaring "kitty" and, below it, "evil", which is
\* in the allowed programs but whose lookup failed: the call failed naming
\* "evil", and "evil" was the only name looked up.
C19_Witness ==
    /\ Validated
    /\ last.res = ErrValidation
    /\ WithContent(Told.tree) = {}
    /\ DeclaredNames(Told.tree) = {"kitty", "evil"}
    /\ "evil" \in Told.gw.found /\ "evil" \in Told.gw.failing
    /\ Told.run.bad = "evil"
    /\ Told.run.calls = <<"evil">>

\* C20: for a node at any depth with non-empty content and non-empty
\* hash, CreateConfig succeeds only if every name the extractor returns
\* for the content is allowed; and a CreateConfig that fails validation
\* stores nothing.
C20_ContentProgramsAllowed ==
    Validated =>
        /\ last.res = OK
            => \A n \in WithContent(Told.tree) :
                 \A i \in 1..Len(ExtractExecOnceCommands(n.content)) :
                    Allowed(Told.gw, ExtractExecOnceCommands(n.content)[i])
        /\ last.res # OK
            => /\ last.res = ErrValidation
               /\ \A d \in configs : d.id # last.cfg

\* C20 witness: every declared name is allowed, the nested node's content
\* launches a program that is not, and the call failed and stored nothing.
C20_Witness ==
    /\ Validated
    /\ last.res = ErrValidation
    /\ \A n \in DeclaredNames(Told.tree) : Allowed(Told.gw, n)
    /\ Told.tree[1].sub # <<>>
    /\ WithContent(Told.tree) = {Told.tree[1].sub[1]}
    /\ \E i \in 1..Len(ExtractExecOnceCommands(Told.tree[1].sub[1].content)) :
          ~Allowed(Told.gw, ExtractExecOnceCommands(Told.tree[1].sub[1].content)[i])
    /\ configs = {}

\* ----------------------------------------------------- search behaviours
\* Two users store aggregates that differ in title, tags, privacy, tree
\* and time, the administrator allows "evil", and every caller searches
\* with every combination of filters.

\* Identities the store issues in the search specification.
SearchIds == {"c1", "c2"}

\* The documents created: a private one titled "Nord" with two tags and
\* "evil" nested below "kitty"; a public one titled "dots" with one tag;
\* a private one titled "Nord" with one tag whose top-level node is "evil".
SearchCfgs ==
    { [NewCfg("Nord", TRUE, <<Parent("a", "kitty", <<Leaf("b", "evil")>>)>>)
          EXCEPT !.tags = {"dark", "nord"}],
      [NewCfg("dots", FALSE, <<Leaf("a", "kitty")>>)
          EXCEPT !.tags = {"dark"}, !.description = "Nord"],
      [NewCfg("Nord", TRUE, <<Leaf("a", "evil")>>) EXCEPT !.tags = {"dark"}] }

\* The filters callers search with.
SearchFilters ==
    { [query |-> q, tags |-> t, program |-> p, owner |-> o, private |-> v,
       from |-> r[1], to |-> r[2]] :
        q \in {"", "n.rd", "DARK"}, t \in {{}, {"dark", "nord"}},
        p \in {"", "evil"}, o \in {"", "u1"},
        v \in {<<>>, <<TRUE>>, <<FALSE>>},
        r \in {<<<<>>, <<>>>>, <<<<1>>, <<>>>>, <<<<0>>, <<0>>>>} }

SearchAllow == AddAllowedProgram(Adm, "evil")

SearchCreate ==
    \E cfg \in SearchCfgs :
        \/ CreateConfig(U1, "c1", cfg)
        \/ CreateConfig(U2, "c2", cfg)

\* A search follows a call that was not a search.
SearchList ==
    \E caller \in {Anon, U1, U2}, f \in SearchFilters :
        /\ last.op # "ListConfigsWithFilters"
        /\ ListConfigsWithFilters(caller, f)

NextSearch == SearchAllow \/ SearchCreate \/ SearchList \/ Tick

SpecSearch == Init /\ [][NextSearch]_vars

\* An aggregate satisfies the filters that are present, each as the store
\* evaluates its condition: the query as a pattern, letter case ignored,
\* found in the title, the description or a tag; all tags asked for among
\* the tags; the program that of a top-level node; the owner; the privacy
\* flag; the update time within the bounds given.
Satisfies(f, d) ==
    /\ f.query # ""
        => \E text \in {d.title, d.description} \cup d.tags :
              RegexMatch(Chars(text), Chars(f.query))
    /\ f.tags \subseteq d.tags
    /\ f.program # "" => \E i \in 1..Len(d.tree) : d.tree[i].program = f.program
    /\ f.owner # "" => d.owner = f.owner
    /\ f.private # <<>> => d.private = f.private[1]
    /\ f.from # <<>> => d.updated >= f.from[1]
    /\ f.to # <<>> => d.updated <= f.to[1]

MaxLines == 3

\* The lines texts are made of: assignments of $term (two values) and of
\* $pop (an ignored name); an exec-once directive launching a variable and
\* a name; exec directives with an empty segment, and with an ignored name
\* literally and through $pop; a directive commented out with "#" right
\* before the keyword, and one with a word between; a line of "#" alone;
\* a directive without payload; a directive with a "#" in its payload; a
\* bind line that runs a program.
ExtLines ==
    { <<"$term", "=", "tool">>,
      <<"$term", "=", "kitty">>,
      <<"$pop", "=", "va11-confirm">>,
      <<"exec-once", "=", "$term", "-e", "&", "evil">>,
      <<"exec", "=", "evil", "&", ";", "kitty">>,
      <<"exec", "=", "va11-popup", "&", "$pop", ";", "tool">>,
      <<"#", "exec-once", "=", "evil">>,
      <<"#", "note", "exec-once", "=", "evil">>,
      <<"#">>,
      <<"exec-once", "=">>,
      <<"exec-once", "=", "kitty", "#", "evil">>,
      <<"bind", "=", "Q", ",", "exec", ",", "tool">> }

ExtTexts == UNION {[1..n -> ExtLines] : n \in 0..MaxLines}

\* Any text.
InitExtract ==
    /\ configs = {}
    /\ issued = {}
    /\ favorites = {}
    /\ applied = {}
    /\ programs = {}
    /\ now = 0
    /\ inflight = [p \in Procs |-> IdleProc]
    /\ strace = NoStrace
    /\ \E text \in ExtTexts :
          last = Call("text", Anon, "", "", "", text, OK, <<>>)

\* commands := ExtractExecOnceCommands(string(content.Data)).
Extract ==
    /\ last.op = "text"
    /\ last' = Call("ExtractExecOnceCommands", Anon, "", "", "", last.node, OK,
                    ExtractExecOnceCommands(last.node))
    /\ Unchanged

NextExtract == Extract

SpecExtract == InitExtract /\ [][NextExtract]_vars

\* The extractor has run: its text and its result.
Extracted == last.op = "ExtractExecOnceCommands"
Text == last.node
Result == last.ret
ResultSet == {Result[i] : i \in 1..Len(Result)}

\* Reading a text line by line.  The two directive forms, each as
\* <<keyword, characters that may follow it>>.
Forms == {<<"exec-once", {"="}>>, <<"exec", {"=", ","}>>}

\* The position of a form's keyword in a line, 0 if the line has none.
KeywordAt(line, f) ==
    LET hits == {i \in 1..(Len(line) - 1) : line[i] = f[1] /\ line[i + 1] \in f[2]}
    IN IF hits = {} THEN 0 ELSE CHOOSE i \in hits : \A j \in hits : i <= j

\* Line l of the text is a launch directive.
IsDirective(l) == \E f \in Forms : KeywordAt(Text[l], f) > 0

\* The payload of directive line l: what follows the keyword and its mark.
Payload(l) ==
    LET f == CHOOSE g \in Forms : KeywordAt(Text[l], g) > 0
    IN SubSeq(Text[l], KeywordAt(Text[l], f) + 2, Len(Text[l]))

\* The positions in a payload of the first token of each segment.
FirstTokens(payload) ==
    {i \in 1..Len(payload) :
        /\ payload[i] \notin {"&", ";"}
        /\ i = 1 \/ payload[i - 1] \in {"&", ";"}}

\* The places <<line, position>> where the text assigns a variable.
AssignedAt(v) ==
    UNION {{<<l, i>> : i \in {j \in 1..(Len(Text[l]) - 2) :
                                Text[l][j] = v /\ Text[l][j + 1] = "="}}
              : l \in 1..Len(Text)}

\* Place p is before place q in the text.
Before(p, q) == p[1] < q[1] \/ (p[1] = q[1] /\ p[2] < q[2])

\* The candidate a first token stands for: the value of the last
\* assignment in the text if the token is an assigned variable, else the
\* token.
Candidate(tok) ==
    IF AssignedAt(tok) = {} THEN tok
    ELSE LET p == CHOOSE q \in AssignedAt(tok) :
                     \A r \in AssignedAt(tok) : r = q \/ Before(r, q)
         IN Text[p[1]][p[2] + 2]

\* The candidates of directive line l, each with its place.
CandidatesAt(l) ==
    {<<Candidate(Payload(l)[i]), <<l, i>>>> : i \in FirstTokens(Payload(l))}

Candidates(l) == {c[1] : c \in CandidatesAt(l)}

\* Line l holds a comment marker.
Marked(l) == \E i \in 1..Len(Text[l]) : Text[l][i] = "#"

\* The text has a directive whose payload is empty.
HasBareDirective ==
    \E l \in 1..Len(Text), f \in Forms :
        KeywordAt(Text[l], f) > 0 /\ KeywordAt(Text[l], f) + 1 = Len(Text[l])

\* Line l comes right after a line that ends in a comment marker.
AfterMarker(l) == l > 1 /\ Text[l - 1][Len(Text[l - 1])] = "#"

C22_CommentsAndIgnoreSet ==
    Extracted
        => /\ \A n \in ResultSet :
                \E l \in 1..Len(Text) :
                    IsDirective(l) /\ ~Marked(l) /\ n \in Candidates(l)
           /\ ResultSet \cap ignore = {}
           /\ \A l \in 1..Len(Text) :
                (IsDirective(l) /\ ~Marked(l))
                    => Candidates(l) \subseteq ResultSet \cup ignore

\* The first place at which a directive line without a comment marker has
\* name n as a candidate.
FirstPlace(n) ==
    LET places == UNION {{c[2] : c \in {d \in CandidatesAt(l) : d[1] = n}}
                            : l \in {k \in 1..Len(Text) : IsDirective(k) /\ ~Marked(k)}}
    IN CHOOSE p \in places : \A q \in places : q = p \/ Before(p, q)

\* Name n is a candidate of a directive line without a comment marker.
Launched(n) ==
    \E l \in 1..Len(Text) : IsDirective(l) /\ ~Marked(l) /\ n \in Candidates(l)

\* C23: the result holds no name twice, its names are in the order of the
\* places in the text where each is first launched, whatever the form of
\* the directive, and the empty text gives the empty result.
C23_OnceInTextOrder ==
    Extracted
        => /\ \A i, j \in 1..Len(Result) : i # j => Result[i] # Result[j]
           /\ \A i, j \in 1..Len(Result) :
                (i < j /\ Launched(Result[i]) /\ Launched(Result[j]))
                    => Before(FirstPlace(Result[i]), FirstPlace(Result[j]))
           /\ Text = <<>> => Result = <<>>

\* -------------------------------------------------- favourite behaviours
\* Two request slots in which u1 and u2 favourite and unfavourite the
\* aggregate u1 creates and may delete; no store call fails.

\* Calls begun per slot.
MaxLikeCalls == 2

\* The like counters a caller's document carries into CreateConfig.
LikeInputs == {0, 1}

LikesCanCall(p) == inflight[p].calls < MaxLikeCalls

LikesCreate ==
    \E likes \in LikeInputs :
        CreateConfig(U1, Cfg1, [NewCfg("t", FALSE, RaceSeed) EXCEPT !.likes = likes])

LikesDelete == DeleteConfig(U1, Cfg1)

\* The identities callers name are identities the store has issued.
LikesFavoriteFind ==
    \E p \in Procs, caller \in {U1, U2} :
        /\ LikesCanCall(p) /\ Cfg1 \in issued
        /\ FavoriteFind(p, caller, Cfg1, FALSE)

LikesFavoriteInsert == \E p \in Procs : FavoriteInsert(p, FALSE)

LikesFavoriteInc == \E p \in Procs : FavoriteInc(p, FALSE)

LikesUnfavoriteDelete ==
    \E p \in Procs, caller \in {U1, U2} :
        /\ LikesCanCall(p) /\ Cfg1 \in issued
        /\ UnfavoriteDelete(p, caller, Cfg1, FALSE)

LikesUnfavoriteDec == \E p \in Procs : UnfavoriteDec(p, FALSE)

NextLikes ==
    \/ LikesCreate \/ LikesDelete
    \/ LikesFavoriteFind \/ LikesFavoriteInsert \/ LikesFavoriteInc
    \/ LikesUnfavoriteDelete \/ LikesUnfavoriteDec

SpecLikes == Init /\ [][NextLikes]_vars

\* No call is between two of its store calls.
Quiescent == \A p \in Procs : inflight[p].pc = "idle"

\* The favourite records that reference an aggregate.
FavoritesOf(id) == {f \in favorites : f[2] = id}

\* C24: whenever no call is in progress, every stored aggregate's like
\* counter is the number of favourite records that reference it (the
\* records are pairs <<user, aggregate>>, of which the unique index lets
\* the store hold each at most once).
C24_LikesCountFavorites ==
    Quiescent => \A d \in configs : d.likes = Cardinality(FavoritesOf(d.id))

\* ------------------------------------------------ store-error behaviours
\* One request at a time; the lookups of a call may fail with an I/O
\* error.  A call is recorded with the failures it was given.

\* The failures given to a call, one flag per store call in call order.
Failures(fails) == [NoInput EXCEPT !.content = fails]

\* client.go GetConfig, whose FindOne may fail.
GetConfigVia(caller, id, fails) ==
    LET res == IF fails[1] THEN ErrStore ELSE GetConfigRes(caller, id)
    IN /\ last' = Call("GetConfig", caller, id, "", "", Failures(fails), res,
                       IF res = OK THEN FindOne(id) ELSE {})
       /\ Unchanged

\* client.go GetAppliedConfig, whose FindOne on the applied states and
\* whose GetConfig may fail: any error of the first is returned as
\* ErrNotFound.
GetAppliedConfigVia(caller, fails) ==
    LET mine == {st \in applied : st[1] = caller.id}
        rec(res, ret) ==
            Call("GetAppliedConfig", caller, "", "", "", Failures(fails), res, ret)
    IN /\ IF getUserFromContext(caller) # OK THEN last' = rec(ErrUnauthorized, {})
          ELSE IF fails[1] \/ mine = {} THEN last' = rec(ErrNotFound, {})
          ELSE LET id == (CHOOSE st \in mine : TRUE)[2]
                   res == IF fails[2] THEN ErrStore ELSE GetConfigRes(caller, id)
               IN last' = rec(res, IF res = OK THEN FindOne(id) ELSE {})
       /\ Unchanged

\* client.go FavoriteConfig, whose FindOne, InsertOne and UpdateByID may
\* fail: the call goes on to the insert after any error of the FindOne.
FavoriteConfigVia(caller, configID, fails) ==
    LET rec(res) ==
            Call("FavoriteConfig", caller, configID, "", "", Failures(fails), res, {})
    IN IF getUserFromContext(caller) # OK
       THEN last' = rec(ErrUnauthorized) /\ Unchanged
       ELSE IF ~fails[1] /\ <<caller.id, configID>> \in favorites
       THEN last' = rec(OK) /\ Unchanged
       ELSE IF fails[2] \/ <<caller.id, configID>> \in favorites
       THEN last' = rec(ErrStore) /\ Unchanged
       ELSE /\ favorites' = favorites \cup {<<caller.id, configID>>}
            /\ configs' = IF fails[3] THEN configs ELSE IncLikes(configID, 1)
            /\ last' = rec(IF fails[3] THEN ErrStore ELSE OK)
            /\ UNCHANGED <<strace, issued, applied, programs, now, inflight>>

IOCreate ==
    \E private \in BOOLEAN : CreateConfig(U1, Cfg1, NewCfg("t", private, RaceSeed))

IOApply == \E caller \in {U1, U2} : ApplyConfig(caller, Cfg1)

IOGetConfig ==
    \E caller \in {U1, U2}, f \in BOOLEAN : GetConfigVia(caller, Cfg1, <<f>>)

IOGetApplied ==
    \E caller \in {Anon, U1, U2}, f, g \in BOOLEAN :
        GetAppliedConfigVia(caller, <<f, g>>)

IOFavorite ==
    \E caller \in {U1, U2}, f, g, h \in BOOLEAN :
        FavoriteConfigVia(caller, Cfg1, <<f, g, h>>)

NextIO == IOCreate \/ IOApply \/ IOGetConfig \/ IOGetApplied \/ IOFavorite

SpecIO == Init /\ [][NextIO]_vars

\* The last call was one that is given failures, by a signed-in caller, and
\* its first store call failed.
FirstLookupFailed ==
    /\ last.op \in {"GetConfig", "GetAppliedConfig", "FavoriteConfig"}
    /\ last.caller.signedIn
    /\ last.node.content[1]

\* C25: a call whose lookup fails with a store I/O error returns that
\* error, neither ErrNotFound nor success.
C25_StoreFailurePassedOn ==
    FirstLookupFailed => last.res = ErrStore

\* ------------------------------------------------- tag list comparison
\* The number of positions of a slice that hold s (mapA[s]++).
CountOf(a, s) == Cardinality({i \in 1..Len(a) : a[i] = s})

\* The count map of a slice: its keys are the strings of the slice.
CountMap(a) == [s \in {a[i] : i \in 1..Len(a)} |-> CountOf(a, s)]

\* util.go StringSlicesEqual.
StringSlicesEqual(a, b) ==
    IF Len(a) = 0 /\ Len(b) = 0 THEN TRUE
    ELSE LET mapA == CountMap(a)
             mapB == CountMap(b)
         IN /\ Cardinality(DOMAIN mapA) = Cardinality(DOMAIN mapB)
            /\ \A key \in DOMAIN mapA :
                  key \in DOMAIN mapB /\ mapB[key] = mapA[key]

MaxSliceLen == 3

SliceStrings == {"x", "y"}

Slices == UNION {[1..n -> SliceStrings] : n \in 0..MaxSliceLen}

\* Any two slices.
InitSlices ==
    /\ configs = {}
    /\ issued = {}
    /\ favorites = {}
    /\ applied = {}
    /\ programs = {}
    /\ now = 0
    /\ inflight = [p \in Procs |-> IdleProc]
    /\ strace = NoStrace
    /\ \E a \in Slices, b \in Slices :
          last = Call("slices", Anon, "", "", "", <<a, b>>, OK, <<>>)

\* StringSlicesEqual(a, b) and StringSlicesEqual(b, a).
Compare ==
    /\ last.op = "slices"
    /\ last' = Call("StringSlicesEqual", Anon, "", "", "", last.node, OK,
                    <<StringSlicesEqual(last.node[1], last.node[2]),
                      StringSlicesEqual(last.node[2], last.node[1])>>)
    /\ Unchanged

NextSlices == Compare

SpecSlices == InitSlices /\ [][NextSlices]_vars

Compared == last.op = "StringSlicesEqual"

StringsOf(a) == {a[i] : i \in 1..Len(a)}

\* C27: StringSlicesEqual(a, b) is true exactly when a and b hold the same
\* set of strings, whatever the order and the number of occurrences, and
\* StringSlicesEqual(b, a) is the same.
C27_SameSetOfStrings ==
    Compared
        => /\ last.ret[1] <=> (StringsOf(last.node[1]) = StringsOf(last.node[2]))
           /\ last.ret[1] = last.ret[2]

\* ------------------------------------------------ Update Config request
\* A stored tag set as a slice.
RECURSIVE SliceOf(_)
SliceOf(S) ==
    IF S = {} THEN <<>>
    ELSE LET x == CHOOSE x \in S : TRUE IN <<x>> \o SliceOf(S \ {x})

\* handler.go Handler.UpdateConfig, the fields it finds changed: the value
\* it puts under "private" is the body's title.
ChangedFields(body, existing) ==
    [NoUpdates EXCEPT
        !.title = IF body.title # "" /\ body.title # existing.title
                  THEN <<body.title>> ELSE <<>>,
        !.description = IF body.description # ""
                           /\ body.description # existing.description
                        THEN <<body.description>> ELSE <<>>,
        !.tree = IF Len(body.tree) > 0 THEN <<body.tree>> ELSE <<>>,
        !.private = IF body.private # existing.private
                    THEN <<"string", body.title>> ELSE <<>>,
        !.tags = IF Len(body.tags) > 0
                    /\ ~StringSlicesEqual(body.tags, SliceOf(existing.tags))
                 THEN <<StringsOf(body.tags)>> ELSE <<>>]

\* handler.go Handler.UpdateConfig: the request is recorded with its body,
\* the error it answers with, or OK and the status it answers with.
HandlerUpdateConfig(caller, configID, body) ==
    LET rec(res, status) ==
            Call("Handler.UpdateConfig", caller, configID, "", "", body, res, status)
    IN IF GetConfigRes(caller, configID) # OK
       THEN last' = rec(GetConfigRes(caller, configID), {}) /\ Unchanged
       ELSE LET existing == CHOOSE d \in FindOne(configID) : TRUE
                updates == ChangedFields(body, existing)
            IN IF updates = NoUpdates
               THEN last' = rec(OK, {"no changes"}) /\ Unchanged
               ELSE UpdateConfigAs(rec(OK, {"updated"}), caller, configID, updates)

\* The bodies of the requests: a HyprConfig as sent.
Bodies ==
    [title : {"", "t", "n"}, description : {"", "d"}, private : BOOLEAN,
     tags : {<<>>, <<"x">>, <<"x", "x">>}, tree : {<<>>}]

HCreate ==
    \E private \in BOOLEAN :
        CreateConfig(U1, Cfg1, NewCfg("t", private, <<Leaf("a", "kitty")>>))

HAllow == AddAllowedProgram(Adm, "kitty")

HUpdate ==
    \E caller \in {Anon, U1, U2}, body \in Bodies :
        CanBump(Cfg1) /\ HandlerUpdateConfig(caller, Cfg1, body)

NextHandler == HAllow \/ HCreate \/ HUpdate

SpecHandler == Init /\ [][NextHandler]_vars

\* The step is an Update Config request by the owner of a stored aggregate
\* whose body's privacy flag is not the stored one.
OwnerFlipsPrivate(d) ==
    /\ last' # last
    /\ last'.op = "Handler.UpdateConfig"
    /\ d \in configs
    /\ d.id = last'.cfg
    /\ last'.caller.signedIn
    /\ d.owner = last'.caller.id
    /\ last'.node.private # d.private

\* C26: an Update Config request by the owner whose privacy flag differs
\* from the stored one succeeds, and the stored privacy flag is then the
\* requested boolean; the title is as before unless the body has a new one.
C26_PrivacyFlagWritten ==
    [][\A d \in configs :
          OwnerFlipsPrivate(d)
              => /\ last'.res = OK
                 /\ \E e \in configs' :
                       /\ e.id = d.id
                       /\ e.private = last'.node.private
                       /\ last'.node.title = "" => e.title = d.title]_vars

\* ------------------------------------------- allow-list names as given
\* The names given to the allow-list calls and declared by nodes.
AllowNames == {"tool", " Tool ", "evil"}

AllowIds == {"c1", "c2"}

AllowAdd == \E name \in AllowNames : AddAllowedProgram(Adm, name)

AllowRemove == \E name \in AllowNames : RemoveAllowedProgram(Adm, name)

AllowCreate ==
    \E id \in AllowIds, name \in AllowNames \cup {"kitty"} :
        CreateConfig(U1, id, NewCfg("t", FALSE, <<Leaf("a", name)>>))

NextAllow == AllowAdd \/ AllowRemove \/ AllowCreate

SpecAllow == Init /\ [][NextAllow]_vars

\* The step is a CreateConfig of a node whose program is the name string
\* the successful allow-list call before it was given.
ValidatesNameOf(op) ==
    /\ last.op = op
    /\ last.res = OK
    /\ last'.op = "CreateConfig"
    /\ last'.ret # {}
    /\ (CHOOSE t \in last'.ret : TRUE).tree[1].program = last.target

\* C28: validation accepts a node whose program is the name string a
\* successful AddAllowedProgram was given, whatever its case and the
\* whitespace around it, and rejects the name string a successful
\* RemoveAllowedProgram was given unless it is in the static whitelist.
C28_NameAsGiven ==
    [][/\ ValidatesNameOf("AddAllowedProgram") => last'.res = OK
       /\ (ValidatesNameOf("RemoveAllowedProgram")
              /\ last.target \notin validPrograms)
            => last'.res = ErrValidation]_vars

\* -------------------------------------------- frame of Remove and Update
\* A node without its children.
OwnFields(n) == [n EXCEPT !.sub = <<>>]

\* The identity of the node above a position path ("" at the top level).
ParentIdAt(list, q) ==
    IF Len(q) = 1 THEN "" ELSE NodeAt(list, SubSeq(q, 1, Len(q) - 1)).id

\* What a list holds outside the subtrees of the nodes with identity id:
\* each such node's payload, parent and depth, in pre-order.
Outside(list, id) ==
    LET qs == Survivors(list, id)
    IN [i \in 1..Len(qs) |->
          [node |-> OwnFields(NodeAt(list, qs[i])),
           parent |-> ParentIdAt(list, qs[i]),
           depth |-> Len(qs[i])]]

\* The position paths of a list as a set.
PathSet(list) == {PathsOf(list, <<>>)[i] : i \in 1..Len(PathsOf(list, <<>>))}

\* C29: a successful RemoveProgramConfig of X leaves every node outside
\* X's subtree in the stored tree with its payload, its parent and its
\* place among its siblings; a successful UpdateProgramConfig of X leaves
\* the shape of the tree and every node other than X as they were.
C29_OnlyTargetTouched ==
    [][/\ (Did("RemoveProgramConfig") /\ last'.res = OK)
            => Outside(T1, last'.target) = Outside(T0, last'.target)
       /\ (Did("UpdateProgramConfig") /\ last'.res = OK)
            => /\ PathsOf(T1, <<>>) = PathsOf(T0, <<>>)
               /\ \A q \in PathSet(T0) :
                     q # FirstPath(T0, last'.target)
                        => OwnFields(NodeAt(T1, q)) = OwnFields(NodeAt(T0, q))]_vars

\* C29 witness: a node with a child and a later sibling was updated, and
\* the child and the sibling are stored.
C29_Witness ==
    /\ last.op = "UpdateProgramConfig" /\ last.res = OK
    /\ LET t == TreeOf(Cfg1)
           q == FirstPath(t, last.target)
       IN /\ Len(q) = 1
          /\ NodeAt(t, q).sub # <<>>
          /\ Len(t) > q[1]

\* ------------------------------------------------------------ RunStrace
\* configfinder/client.go RunStrace: the main path and the goroutine it
\* starts share the variable err.  Each action is one statement of one of
\* the two, so that every interleaving of their reads and writes of err is
\* a behaviour.

\* Errors of a finished command other than nil.
KilledErr == "signal: killed"
ExitErr == "exit status 1"

StraceOnly == UNCHANGED <<configs, issued, favorites, applied, programs, now, inflight, last>>

\* RunStrace up to cmd.Wait: the context with its deadline, cmd.Start,
\* syscall.Getpgid assigning err, the deferred cleanup and the go
\* statement.  A command that does not start returns at once.
StraceStart ==
    /\ strace.main = "idle"
    /\ \E started \in BOOLEAN, pgidErr \in {"nil", "getpgid failed"} :
          strace' = IF started
                    THEN [strace EXCEPT !.main = "wait", !.watcher = "timer",
                                        !.proc = "running", !.err = pgidErr]
                    ELSE [strace EXCEPT !.main = "returned",
                                        !.result = "failed to start command"]
    /\ StraceOnly

\* The traced command ends by itself.
StraceExit ==
    /\ strace.proc = "running"
    /\ \E code \in {"nil", ExitErr} :
          strace' = [strace EXCEPT !.proc = "exited", !.exit = code]
    /\ StraceOnly

\* The deadline of the context passes: exec.CommandContext kills a
\* command that is still running.
StraceDeadline ==
    /\ strace.main # "idle"
    /\ ~strace.deadline
    /\ strace' = IF strace.proc = "running"
                 THEN [strace EXCEPT !.deadline = TRUE, !.proc = "exited",
                                     !.exit = KilledErr]
                 ELSE [strace EXCEPT !.deadline = TRUE]
    /\ StraceOnly

\* err = cmd.Wait().
StraceWait ==
    /\ strace.main = "wait"
    /\ strace.proc = "exited"
    /\ strace' = [strace EXCEPT !.main = "testctx", !.proc = "reaped",
                                !.err = strace.exit, !.waitErr = strace.exit]
    /\ StraceOnly

\* if errors.Is(ctx.Err(), context.DeadlineExceeded).
StraceTestCtx ==
    /\ strace.main = "testctx"
    /\ strace' = [strace EXCEPT !.sawDeadline = strace.deadline,
                                !.main = IF strace.deadline THEN "read" ELSE "testerr"]
    /\ StraceOnly

\* else if err != nil, with the "signal: killed" exception.
StraceTestErr ==
    /\ strace.main = "testerr"
    /\ strace' = IF strace.err # "nil" /\ strace.err # KilledErr
                 THEN [strace EXCEPT !.main = "returned",
                                     !.result = "command failed"]
                 ELSE [strace EXCEPT !.main = "read"]
    /\ StraceOnly

\* data, err := os.ReadFile(logFile).
StraceRead ==
    /\ strace.main = "read"
    /\ \E e \in {"nil", "read error"} :
          strace' = [strace EXCEPT !.main = "testread", !.err = e, !.readErr = e]
    /\ StraceOnly

\* if err != nil after the read, then the parsing and the return.
StraceTestRead ==
    /\ strace.main = "testread"
    /\ strace' = [strace EXCEPT !.main = "returned",
                                !.result = IF strace.err # "nil"
                                           THEN "failed to read log file"
                                           ELSE "ok"]
    /\ StraceOnly

\* case <-t.C: the watcher's timer has the duration of the context's
\* timeout and is started after it.
StraceTimer ==
    /\ strace.watcher = "timer"
    /\ strace.deadline
    /\ strace' = [strace EXCEPT !.watcher = "kill9"]
    /\ StraceOnly

\* What a kill command run by the watcher returns: nil while the process
\* is there to be signalled; once it is reaped the PID names no process or
\* another one.
KillResults == IF strace.proc = "exited" THEN {"nil"} ELSE {"nil", ExitErr}

\* A kill command run by the watcher after RunStrace has returned.
Late == IF strace.main = "returned" THEN 1 ELSE 0

\* err = exec.Command("kill", "-9", pid).Run().
StraceKill9 ==
    /\ strace.watcher = "kill9"
    /\ \E r \in KillResults :
          strace' = [strace EXCEPT !.watcher = "killterm", !.err = r,
                                   !.late = @ + Late]
    /\ StraceOnly

\* err = exec.Command("kill", "-TERM", "-g", -pgid).Run().
StraceKillTerm ==
    /\ strace.watcher = "killterm"
    /\ \E r \in KillResults :
          strace' = [strace EXCEPT !.watcher = "done", !.err = r,
                                   !.late = @ + Late]
    /\ StraceOnly

NextStrace ==
    \/ StraceStart \/ StraceExit \/ StraceDeadline \/ StraceWait
    \/ StraceTestCtx \/ StraceTestErr \/ StraceRead \/ StraceTestRead
    \/ StraceTimer \/ StraceKill9 \/ StraceKillTerm

SpecStrace == Init /\ [][NextStrace]_vars

\* What RunStrace returns for the outcome of the traced command, the state
\* of the context its main path saw and the outcome of the log file read.
ResultFor(waitErr, sawDeadline, readErr) ==
    IF ~sawDeadline /\ waitErr # "nil" /\ waitErr # KilledErr
    THEN "command failed"
    ELSE IF readErr # "nil" THEN "failed to read log file"
    ELSE "ok"

\* RunStrace has returned after cmd.Wait.
StraceReturned == strace.main = "returned" /\ strace.proc = "reaped"

\* C30: the watcher goroutine does not change what RunStrace returns, which
\* follows from the command's outcome and the log file read alone, and it
\* runs no kill command after RunStrace has returned.
C30_WatcherInert ==
    /\ StraceReturned
          => strace.result
               = ResultFor(strace.waitErr, strace.sawDeadline, strace.readErr)
    /\ strace.late = 0

====
